---- MODULE Spec2Model ----
(***************************************************************************)
(* The virtio filesystem (FUSE) transport of                               *)
(* kernel/comps/virtio/src/device/filesystem: the submission operations of *)
(* FilesystemDevice, the device that completes requests, and the           *)
(* completion handler handle_recv_irq, as concurrent contexts over the     *)
(* queue locks, the virtqueues and the DMA staging buffers.                *)
(*                                                                         *)
(* Staging buffers are modelled by their layout (which request wrote them, *)
(* the opcode and len of the in-header, how many bytes of each region were *)
(* written), not byte by byte.                                             *)
(***************************************************************************)
EXTENDS Integers, Sequences, FiniteSets, TLC

VARIABLES pc, cur, lock, buffer, synced, vq, irq,
          testCounter, ncalls, panicked

vars == <<pc, cur, lock, buffer, synced, vq, irq,
          testCounter, ncalls, panicked>>

(***************************************************************************)
(* Bounds of the model.                                                    *)
(***************************************************************************)
\* submission calls made in one behaviour
MaxCalls == 2
\* num_request_queues of the device configuration
NumRequestQueues == 2
\* longest name passed to a name-taking operation
MaxNameLen == 8
\* longest payload passed to write
MaxDataLen == 16
\* longest forget_list passed to batch_forget
MaxForget == 2
\* largest unique passed to interrupt
MaxUnique == 1

Threads == {"t1", "t2"}
Ctx == Threads \cup {"irq"}
NameLens == {MaxNameLen - 1, MaxNameLen}
DataLens == {MaxDataLen - 1, MaxDataLen}
ForgetLens == 0..MaxForget
Uniques == 0..MaxUnique

(***************************************************************************)
(* size_of::<T>() of the wire structs (fuse.rs; FUSE protocol layouts).    *)
(***************************************************************************)
SizeFuseInHeader == 40
SizeFuseOutHeader == 16
SizeFuseInitIn == 64
SizeFuseInitOut == 64
SizeFuseOpenIn == 8
SizeFuseOpenOut == 16
SizeFuseReadIn == 40
SizeFuseFlushIn == 24
SizeFuseReleaseIn == 24
SizeFuseGetattrIn == 16
SizeFuseSetattrIn == 88
SizeFuseAttrOut == 104
SizeFuseEntryOut == 128
SizeFuseAccessIn == 8
SizeFuseStatfsOut == 80
SizeFuseInterruptIn == 8
SizeFuseMkdirIn == 8
SizeFuseCreateIn == 16
SizeFuseRenameIn == 8
SizeFuseRename2In == 16
SizeFuseWriteIn == 40
SizeFuseWriteOut == 8
SizeFuseForgetIn == 8
SizeFuseForgetOne == 16
SizeFuseBatchForgetIn == 8
SizeFuseLinkIn == 8
\* FuseUnlinkIn is no struct of the FUSE protocol; taken as one 8-byte word
SizeFuseUnlinkIn == 8

(***************************************************************************)
(* Program constants.                                                      *)
(***************************************************************************)
HIPRIO_QUEUE_INDEX == 0
REQUEST_QUEUE_BASE_INDEX == 1
HiprioQueueSize == 2
RequestQueueSize == 4
InitOutPlaceholder == 256
ReadOutPlaceholder == 1024
BufferPages == 3
PAGE_SIZE == 4096

BufferBytes == BufferPages * PAGE_SIZE

\* queues by their virtqueue index; a staging buffer is named by the index of
\* the queue it is paired with
request_queues(i) == REQUEST_QUEUE_BASE_INDEX + i
hiprio_queue == HIPRIO_QUEUE_INDEX
request_buffers(i) == REQUEST_QUEUE_BASE_INDEX + i
hiprio_buffer == HIPRIO_QUEUE_INDEX
Queues == {hiprio_queue} \cup {request_queues(i) : i \in 0..(NumRequestQueues - 1)}
Buffers == {hiprio_buffer} \cup {request_buffers(i) : i \in 0..(NumRequestQueues - 1)}
\* every queue allocated with the size of a request queue
QueueSizeOfRequestQueue(q) == RequestQueueSize

QueueSize(q) == IF q = hiprio_queue THEN HiprioQueueSize ELSE RequestQueueSize

Min(a, b) == IF a < b THEN a ELSE b

\* fuse_pad_str(name, terminator).len(): the name, its terminator, zero
\* padding to the next multiple of 8
fuse_pad_str(L, terminator) ==
    LET n == L + (IF terminator THEN 1 ELSE 0)
    IN  n + ((8 - (n % 8)) % 8)

\* write: data.len() after [data, vec![0u8; (8 - (data.len() & 0x7)) & 0x7]].concat()
PadData(N) == N + ((8 - (N % 8)) % 8)

\* DmaStreamSlice::new(stream, offset, len): the len bytes of stream from offset
DmaStreamSlice(stream, offset, len) ==
    [stream |-> stream, lo |-> offset, hi |-> offset + len]

(***************************************************************************)
(* The locals of one submission call, as each operation computes them:     *)
(*   lockq     the queue whose lock the call takes                         *)
(*   bufw      the staging buffer it writes, synchronizes and slices       *)
(*   q         the queue it enqueues on and decides the doorbell of        *)
(*   hdr_len   headerin.len                                                *)
(*   in_bytes  bytes of concat_req before headerout_buffer                 *)
(*   out_bytes bytes of concat_req from headerout_buffer on                *)
(*   len_in    the split point                                             *)
(*   notifies  whether the call ends in the should_notify/notify decision  *)
(*   unique    headerin.unique: the literal 0 of the FuseInHeader every    *)
(*             operation builds, but for interrupt                         *)
(***************************************************************************)
Request(opcode, lockq, bufw, q, hdr_len, in_bytes, out_bytes, len_in, notifies) ==
    [opcode |-> opcode, lockq |-> lockq, bufw |-> bufw, q |-> q,
     hdr_len |-> hdr_len, in_bytes |-> in_bytes, out_bytes |-> out_bytes,
     len_in |-> len_in, notifies |-> notifies, unique |-> 0]

init_req ==
    Request("FuseInit", request_queues(0), request_buffers(0), request_queues(0),
            SizeFuseInitIn + SizeFuseInHeader,
            SizeFuseInHeader + SizeFuseInitIn,
            SizeFuseOutHeader + InitOutPlaceholder,
            SizeFuseInitIn + SizeFuseInHeader, TRUE)

opendir_req ==
    Request("FuseOpendir", request_queues(0), request_buffers(0), request_queues(0),
            SizeFuseOpenIn + SizeFuseInHeader,
            SizeFuseInHeader + SizeFuseOpenIn,
            SizeFuseOutHeader + SizeFuseOpenOut,
            SizeFuseOpenIn + SizeFuseInHeader, TRUE)

readdir_req ==
    Request("FuseReaddir", request_queues(0), request_buffers(0), request_queues(0),
            SizeFuseReadIn + SizeFuseInHeader,
            SizeFuseInHeader + SizeFuseReadIn,
            SizeFuseOutHeader + ReadOutPlaceholder,
            SizeFuseReadIn + SizeFuseInHeader, TRUE)

read_req ==
    Request("FuseRead", request_queues(0), request_buffers(0), request_queues(0),
            SizeFuseReadIn + SizeFuseInHeader,
            SizeFuseInHeader + SizeFuseReadIn,
            SizeFuseOutHeader + ReadOutPlaceholder,
            SizeFuseReadIn + SizeFuseInHeader, TRUE)

open_req ==
    Request("FuseOpen", request_queues(0), request_buffers(0), request_queues(0),
            SizeFuseOpenIn + SizeFuseInHeader,
            SizeFuseInHeader + SizeFuseOpenIn,
            SizeFuseOutHeader + SizeFuseOpenOut,
            SizeFuseOpenIn + SizeFuseInHeader, TRUE)

flush_req ==
    Request("FuseFlush", request_queues(0), request_buffers(0), request_queues(0),
            SizeFuseFlushIn + SizeFuseInHeader,
            SizeFuseInHeader + SizeFuseFlushIn,
            SizeFuseOutHeader,
            SizeFuseFlushIn + SizeFuseInHeader, TRUE)

releasedir_req ==
    Request("FuseReleasedir", request_queues(0), request_buffers(0), request_queues(0),
            SizeFuseReleaseIn + SizeFuseInHeader,
            SizeFuseInHeader + SizeFuseReleaseIn,
            SizeFuseOutHeader,
            SizeFuseReleaseIn + SizeFuseInHeader, TRUE)

getattr_req ==
    Request("FuseGetattr", request_queues(0), request_buffers(0), request_queues(0),
            SizeFuseGetattrIn + SizeFuseInHeader,
            SizeFuseInHeader + SizeFuseGetattrIn,
            SizeFuseOutHeader + SizeFuseAttrOut,
            SizeFuseGetattrIn + SizeFuseInHeader, TRUE)

setattr_req ==
    Request("FuseSetattr", request_queues(0), request_buffers(0), request_queues(0),
            SizeFuseSetattrIn + SizeFuseInHeader,
            SizeFuseInHeader + SizeFuseSetattrIn,
            SizeFuseOutHeader + SizeFuseAttrOut,
            SizeFuseSetattrIn + SizeFuseInHeader, TRUE)

lookup_req(name) ==
    Request("FuseLookup", request_queues(0), request_buffers(0), request_queues(0),
            SizeFuseInHeader + fuse_pad_str(name, TRUE),
            SizeFuseInHeader + fuse_pad_str(name, TRUE),
            SizeFuseOutHeader + SizeFuseEntryOut,
            fuse_pad_str(name, TRUE) + SizeFuseInHeader, TRUE)

release_req ==
    Request("FuseRelease", request_queues(0), request_buffers(0), request_queues(0),
            SizeFuseReleaseIn + SizeFuseInHeader,
            SizeFuseInHeader + SizeFuseReleaseIn,
            SizeFuseOutHeader,
            SizeFuseReleaseIn + SizeFuseInHeader, TRUE)

access_req ==
    Request("FuseAccess", request_queues(0), request_buffers(0), request_queues(0),
            SizeFuseAccessIn + SizeFuseInHeader,
            SizeFuseInHeader + SizeFuseAccessIn,
            SizeFuseOutHeader + SizeFuseAttrOut,
            SizeFuseAccessIn + SizeFuseInHeader, TRUE)

statfs_req ==
    Request("FuseStatfs", request_queues(0), request_buffers(0), request_queues(0),
            SizeFuseInHeader,
            SizeFuseInHeader,
            SizeFuseOutHeader + SizeFuseStatfsOut,
            SizeFuseInHeader, TRUE)

\* interrupt(&self, nodeid, unique): headerin.unique and
\* FuseInterruptIn.unique are both the argument
interrupt_req(unique) ==
    [Request("FuseInterrupt", hiprio_queue, request_buffers(0), hiprio_queue,
             SizeFuseInterruptIn + SizeFuseInHeader,
             SizeFuseInHeader + SizeFuseInterruptIn,
             SizeFuseOutHeader,
             SizeFuseInterruptIn + SizeFuseInHeader, TRUE)
        EXCEPT !.unique = unique]

mkdir_req(name) ==
    Request("FuseMkdir", request_queues(0), request_buffers(0), request_queues(0),
            SizeFuseMkdirIn + fuse_pad_str(name, TRUE) + SizeFuseInHeader,
            SizeFuseInHeader + SizeFuseMkdirIn + fuse_pad_str(name, TRUE),
            SizeFuseOutHeader + SizeFuseEntryOut,
            fuse_pad_str(name, TRUE) + SizeFuseMkdirIn + SizeFuseInHeader, TRUE)

create_req(name) ==
    Request("FuseCreate", request_queues(0), request_buffers(0), request_queues(0),
            SizeFuseCreateIn + fuse_pad_str(name, TRUE) + SizeFuseInHeader,
            SizeFuseInHeader + SizeFuseCreateIn + fuse_pad_str(name, TRUE),
            SizeFuseOutHeader + SizeFuseEntryOut,
            fuse_pad_str(name, TRUE) + SizeFuseCreateIn + SizeFuseInHeader, TRUE)

destroy_req ==
    Request("FuseDestroy", request_queues(0), request_buffers(0), request_queues(0),
            SizeFuseInHeader,
            SizeFuseInHeader,
            SizeFuseOutHeader,
            SizeFuseInHeader, TRUE)

rename_req(name, newname) ==
    Request("FuseRename", request_queues(0), request_buffers(0), request_queues(0),
            SizeFuseRenameIn + fuse_pad_str(name, TRUE) + fuse_pad_str(newname, TRUE)
                + SizeFuseInHeader,
            SizeFuseInHeader + SizeFuseRenameIn + fuse_pad_str(name, TRUE)
                + fuse_pad_str(newname, TRUE),
            SizeFuseOutHeader + SizeFuseEntryOut,
            fuse_pad_str(name, TRUE) + fuse_pad_str(newname, TRUE) + SizeFuseRenameIn
                + SizeFuseInHeader, TRUE)

rename2_req(name, newname) ==
    Request("FuseRename2", request_queues(0), request_buffers(0), request_queues(0),
            SizeFuseRename2In + fuse_pad_str(name, TRUE) + fuse_pad_str(newname, TRUE)
                + SizeFuseInHeader,
            SizeFuseInHeader + SizeFuseRename2In + fuse_pad_str(name, TRUE)
                + fuse_pad_str(newname, TRUE),
            SizeFuseOutHeader + SizeFuseEntryOut,
            fuse_pad_str(name, TRUE) + fuse_pad_str(newname, TRUE) + SizeFuseRename2In
                + SizeFuseInHeader, FALSE)

write_req(data) ==
    Request("FuseWrite", request_queues(0), request_buffers(0), request_queues(0),
            SizeFuseInHeader + SizeFuseWriteIn + PadData(data),
            SizeFuseInHeader + SizeFuseWriteIn + PadData(data),
            SizeFuseOutHeader + SizeFuseWriteOut,
            SizeFuseWriteIn + SizeFuseInHeader + PadData(data), TRUE)

\* forget as it would be were its chain added to the general queue
forget_req_on_general ==
    Request("FuseForget", hiprio_queue, request_buffers(0), request_queues(0),
            SizeFuseForgetIn + SizeFuseInHeader,
            SizeFuseInHeader + SizeFuseForgetIn,
            SizeFuseOutHeader,
            SizeFuseForgetIn + SizeFuseInHeader, TRUE)

forget_req ==
    Request("FuseForget", hiprio_queue, request_buffers(0), hiprio_queue,
            SizeFuseForgetIn + SizeFuseInHeader,
            SizeFuseInHeader + SizeFuseForgetIn,
            SizeFuseOutHeader,
            SizeFuseForgetIn + SizeFuseInHeader, TRUE)

batch_forget_req(n) ==
    Request("FuseBatchForget", hiprio_queue, request_buffers(0), hiprio_queue,
            SizeFuseBatchForgetIn + SizeFuseInHeader,
            SizeFuseInHeader + n * SizeFuseForgetOne,
            SizeFuseOutHeader,
            n * SizeFuseForgetOne + SizeFuseInHeader, TRUE)

link_req(name) ==
    Request("FuseLink", request_queues(0), request_buffers(0), request_queues(0),
            SizeFuseLinkIn + fuse_pad_str(name, TRUE) + SizeFuseInHeader,
            SizeFuseInHeader + SizeFuseLinkIn + fuse_pad_str(name, TRUE),
            SizeFuseOutHeader + SizeFuseEntryOut,
            fuse_pad_str(name, TRUE) + SizeFuseLinkIn + SizeFuseInHeader, TRUE)

unlink_req(name) ==
    Request("FuseUnlink", request_queues(0), request_buffers(0), request_queues(0),
            SizeFuseUnlinkIn + fuse_pad_str(name, TRUE) + SizeFuseInHeader,
            SizeFuseInHeader + fuse_pad_str(name, TRUE),
            SizeFuseOutHeader + SizeFuseEntryOut,
            fuse_pad_str(name, TRUE) + SizeFuseUnlinkIn + SizeFuseInHeader, TRUE)

(***************************************************************************)
(* State.                                                                  *)
(*   pc[c]       position of context c (a calling thread, or the handler)  *)
(*   cur[t]      locals of the call thread t is in, its doorbell decision  *)
(*   lock[q]     holder of the SpinLock of queue q                         *)
(*   buffer[b]   layout last written to staging buffer b, and the response *)
(*               the device last wrote into it                             *)
(*   synced[b]   extent of the last sync of b                              *)
(*   vq[q]       descriptors free, chains available to the device, chains  *)
(*               used by the device and not yet popped                     *)
(*   irq         locals of the running handle_recv_irq                     *)
(*   testCounter TEST_COUNTER                                              *)
(*   ncalls      submission calls made so far                              *)
(*   panicked    an unwrap() failed                                        *)
(***************************************************************************)
NoReq == [opcode |-> "none"]
NoResp == [at |-> -1, len |-> 0, error |-> 0]
NoIrq == [opcode |-> "none"]

Init ==
    /\ pc = [c \in Ctx |-> "idle"]
    /\ cur = [t \in Threads |-> NoReq]
    /\ lock = [q \in Queues |-> "free"]
    /\ buffer = [b \in Buffers |->
                   [opcode |-> "none", hdr_len |-> 0, in_bytes |-> 0, total |-> 0,
                    seq |-> 0, resp |-> NoResp]]
    /\ synced = [b \in Buffers |-> [lo |-> 0, hi |-> 0]]
    /\ vq = [q \in Queues |-> [free |-> QueueSize(q), avail |-> <<>>, used |-> <<>>]]
    /\ irq = NoIrq
    /\ testCounter = 1
    /\ ncalls = 0
    /\ panicked = FALSE

(***************************************************************************)
(* A submission operation, step by step.                                   *)
(***************************************************************************)
\* self.<queue>.disable_irq().lock(), then the locals up to concat_req
Call(t, r) ==
    /\ ~panicked
    /\ pc[t] = "idle"
    /\ ncalls < MaxCalls
    /\ lock[r.lockq] = "free"
    /\ lock' = [lock EXCEPT ![r.lockq] = t]
    /\ cur' = [cur EXCEPT ![t] = [req |-> r, seq |-> ncalls + 1, len |-> 0,
                                      needs |-> FALSE, rang |-> FALSE]]
    /\ ncalls' = ncalls + 1
    /\ pc' = [pc EXCEPT ![t] = "locked"]
    /\ UNCHANGED <<buffer, synced, vq, irq, testCounter, panicked>>

\* let len = writer.write(&mut reader): concat_req copied to offset 0 of the buffer
WriteBuffer(t) ==
    /\ ~panicked
    /\ pc[t] = "locked"
    /\ LET r == cur[t].req
           len == Min(r.in_bytes + r.out_bytes, BufferBytes)
       IN  /\ buffer' = [buffer EXCEPT ![r.bufw] =
                           [opcode |-> r.opcode, hdr_len |-> r.hdr_len,
                            in_bytes |-> Min(r.in_bytes, len), total |-> len,
                            seq |-> cur[t].seq, resp |-> NoResp]]
           /\ cur' = [cur EXCEPT ![t].len = len]
    /\ pc' = [pc EXCEPT ![t] = "written"]
    /\ UNCHANGED <<lock, synced, vq, irq, testCounter, ncalls, panicked>>

\* self.request_buffers[0].sync(0..len)
SyncBuffer(t) ==
    /\ ~panicked
    /\ pc[t] = "written"
    /\ synced' = [synced EXCEPT ![cur[t].req.bufw] = [lo |-> 0, hi |-> cur[t].len]]
    /\ pc' = [pc EXCEPT ![t] = "synced"]
    /\ UNCHANGED <<cur, lock, buffer, vq, irq, testCounter, ncalls, panicked>>

\* VirtQueue::add_dma_buf(&[&slice_in], &[&slice_out]): one descriptor per slice
add_dma_buf(queue, entry) ==
    [queue EXCEPT !.free = @ - 2, !.avail = Append(@, entry)]

\* slice_in, slice_out, add_dma_buf(..).unwrap(): a chain the queue rejects
\* (no two free descriptors, a slice past the end of the stream) panics
Enqueue(t) ==
    /\ ~panicked
    /\ pc[t] = "synced"
    /\ LET r == cur[t].req
           slice_in == DmaStreamSlice(r.bufw, 0, r.len_in)
           slice_out == DmaStreamSlice(r.bufw, r.len_in, cur[t].len)
           entry == [req |-> r, seq |-> cur[t].seq, len |-> cur[t].len,
                     rd |-> slice_in, wr |-> slice_out]
       IN  IF slice_in.hi <= BufferBytes /\ slice_out.hi <= BufferBytes
              /\ vq[r.q].free >= 2
           THEN /\ vq' = [vq EXCEPT ![r.q] = add_dma_buf(vq[r.q], entry)]
                /\ pc' = [pc EXCEPT ![t] = "enqueued"]
                /\ UNCHANGED panicked
           ELSE /\ panicked' = TRUE
                /\ pc' = [pc EXCEPT ![t] = "add_dma_buf_failed"]
                /\ UNCHANGED vq
    /\ UNCHANGED <<cur, lock, buffer, synced, irq, testCounter, ncalls>>

\* if queue.should_notify() { queue.notify() }: needs is what should_notify
\* answers at this point, rang whether notify was called
Notify(t) ==
    /\ ~panicked
    /\ pc[t] = "enqueued"
    /\ \E should_notify \in BOOLEAN :
         cur' = [cur EXCEPT ![t].needs = should_notify,
                            ![t].rang = cur[t].req.notifies /\ should_notify]
    /\ pc' = [pc EXCEPT ![t] = "notified"]
    /\ UNCHANGED <<lock, buffer, synced, vq, irq, testCounter, ncalls, panicked>>

\* an operation that returns only when the device has taken its chain
ReturnAfterDeviceTookChain(t) ==
    /\ ~panicked
    /\ pc[t] = "notified"
    /\ \A i \in 1..Len(vq[cur[t].req.q].avail) : vq[cur[t].req.q].avail[i].seq # cur[t].seq
    /\ lock' = [lock EXCEPT ![cur[t].req.lockq] = "free"]
    /\ cur' = [cur EXCEPT ![t] = NoReq]
    /\ pc' = [pc EXCEPT ![t] = "idle"]
    /\ UNCHANGED <<buffer, synced, vq, irq, testCounter, ncalls, panicked>>

\* the end of the operation: the queue guard is dropped
Return(t) ==
    /\ ~panicked
    /\ pc[t] = "notified"
    /\ lock' = [lock EXCEPT ![cur[t].req.lockq] = "free"]
    /\ cur' = [cur EXCEPT ![t] = NoReq]
    /\ pc' = [pc EXCEPT ![t] = "idle"]
    /\ UNCHANGED <<buffer, synced, vq, irq, testCounter, ncalls, panicked>>

(***************************************************************************)
(* The operations of AnyFuseDevice for FilesystemDevice.                   *)
(***************************************************************************)
init(t) == Call(t, init_req)
opendir(t) == Call(t, opendir_req)
readdir(t) == Call(t, readdir_req)
read(t) == Call(t, read_req)
open(t) == Call(t, open_req)
flush(t) == Call(t, flush_req)
releasedir(t) == Call(t, releasedir_req)
getattr(t) == Call(t, getattr_req)
setattr(t) == Call(t, setattr_req)
lookup(t) == \E name \in NameLens : Call(t, lookup_req(name))
release(t) == Call(t, release_req)
access(t) == Call(t, access_req)
statfs(t) == Call(t, statfs_req)
interrupt(t) == \E unique \in Uniques : Call(t, interrupt_req(unique))
mkdir(t) == \E name \in NameLens : Call(t, mkdir_req(name))
create(t) == \E name \in NameLens : Call(t, create_req(name))
destroy(t) == Call(t, destroy_req)
rename(t) == \E name \in NameLens, newname \in NameLens : Call(t, rename_req(name, newname))
rename2(t) == \E name \in NameLens, newname \in NameLens : Call(t, rename2_req(name, newname))
write(t) == \E data \in DataLens : Call(t, write_req(data))
forget(t) == Call(t, forget_req)
batch_forget(t) == \E n \in ForgetLens : Call(t, batch_forget_req(n))
link(t) == \E name \in NameLens : Call(t, link_req(name))
unlink(t) == \E name \in NameLens : Call(t, unlink_req(name))

(***************************************************************************)
(* The device: it takes the oldest available chain of a queue, reads the   *)
(* readable range, writes a response of w bytes at the start of the        *)
(* writable range and returns the chain as used with written length w.     *)
(* A response is the out-header alone (an error, or an operation without   *)
(* output) or fills what the request left room for.                        *)
(***************************************************************************)
ResponseLens(entry) ==
    {Min(SizeFuseOutHeader, entry.wr.hi - entry.wr.lo),
     Min(entry.req.out_bytes, entry.wr.hi - entry.wr.lo)}

\* the errno of a failed request, as the backend reports it: -ENOENT
ENOENT == 2

\* the error field of the out-header of a response of w bytes: 0 with the
\* output of the operation; without it a negative errno, or 0 where success
\* has no output (no output struct, or no bytes read)
ResponseErrors(entry, w) ==
    IF w > SizeFuseOutHeader THEN {0}
    ELSE IF entry.req.out_bytes = SizeFuseOutHeader
            \/ entry.req.opcode \in {"FuseRead", "FuseReaddir"}
         THEN {0, -ENOENT}
         ELSE {-ENOENT}

DeviceComplete(q) ==
    /\ ~panicked
    /\ vq[q].avail # <<>>
    /\ LET entry == Head(vq[q].avail)
       IN  \E w \in ResponseLens(entry) : \E e \in ResponseErrors(entry, w) :
             /\ buffer' = [buffer EXCEPT ![entry.wr.stream].resp =
                             [at |-> entry.wr.lo, len |-> w, error |-> e]]
             /\ vq' = [vq EXCEPT ![q].avail = Tail(@),
                                 ![q].used = Append(@, [entry |-> entry, len |-> w])]
    /\ UNCHANGED <<pc, cur, lock, synced, irq, testCounter, ncalls, panicked>>

(***************************************************************************)
(* handle_recv_irq, the callback registered for queue                      *)
(* REQUEST_QUEUE_BASE_INDEX + 0, step by step.                             *)
(***************************************************************************)
\* the opcodes handle_recv_irq has a branch for
DecodedOpcodes ==
    {"FuseInit", "FuseReaddir", "FuseOpendir", "FuseOpen", "FuseRead", "FuseFlush",
     "FuseReleasedir", "FuseGetattr", "FuseSetattr", "FuseLookup", "FuseRelease",
     "FuseWrite", "FuseAccess", "FuseStatfs", "FuseInterrupt", "FuseMkdir",
     "FuseCreate", "FuseDestroy", "FuseRename", "FuseRename2", "FuseForget",
     "FuseBatchForget", "FuseLink", "FuseUnlink"}

\* the values FuseOpcode::try_from accepts (fuse.rs): the opcodes of the FUSE
\* protocol, of which FuseSymlink stands for those without a branch; any
\* other value of the opcode field, the 0 of a zeroed buffer ("none") among
\* them, makes try_from fail
FuseOpcode == DecodedOpcodes \cup {"FuseSymlink"}

\* whether the branch of an opcode prints the error field of the out-header
\* it read (the FuseInit branch binds the out-header to _headerout)
ReportsError(opcode) == opcode # "FuseInit"

\* bytes the branch of an opcode reads between the in-header and the out-header
DecodeIn(opcode) ==
    CASE opcode = "FuseInit" -> SizeFuseInitIn
      [] opcode = "FuseReaddir" -> SizeFuseReadIn
      [] opcode = "FuseOpendir" -> SizeFuseOpenIn
      [] opcode = "FuseOpen" -> SizeFuseOpenIn
      [] opcode = "FuseRead" -> SizeFuseReadIn
      [] opcode = "FuseFlush" -> 0
      [] opcode = "FuseReleasedir" -> SizeFuseReleaseIn
      [] opcode = "FuseGetattr" -> SizeFuseGetattrIn
      [] opcode = "FuseSetattr" -> SizeFuseSetattrIn
      [] opcode = "FuseLookup" -> SizeFuseInHeader
      [] opcode = "FuseRelease" -> SizeFuseReleaseIn
      [] opcode = "FuseWrite" -> 0
      [] opcode = "FuseAccess" -> SizeFuseAccessIn
      [] opcode = "FuseStatfs" -> SizeFuseInHeader
      [] opcode = "FuseInterrupt" -> SizeFuseInterruptIn
      [] opcode = "FuseMkdir" -> SizeFuseMkdirIn
      [] opcode = "FuseCreate" -> SizeFuseCreateIn
      [] opcode = "FuseDestroy" -> 0
      [] opcode = "FuseRename" -> SizeFuseRenameIn
      [] opcode = "FuseRename2" -> SizeFuseRename2In
      [] opcode = "FuseForget" -> SizeFuseForgetIn
      [] opcode = "FuseBatchForget" -> SizeFuseBatchForgetIn
      [] opcode = "FuseLink" -> SizeFuseLinkIn
      [] opcode = "FuseUnlink" -> SizeFuseUnlinkIn

\* bytes the branch of an opcode reads after the out-header, whose len field it
\* read as headerout_len
DecodeOut(opcode, headerout_len) ==
    CASE opcode = "FuseInit" -> SizeFuseInitOut
      [] opcode \in {"FuseReaddir", "FuseRead"} ->
            IF headerout_len > SizeFuseOutHeader
            THEN headerout_len - SizeFuseOutHeader ELSE 0
      [] opcode \in {"FuseOpendir", "FuseOpen"} -> SizeFuseOpenOut
      [] opcode \in {"FuseGetattr", "FuseSetattr", "FuseAccess"} -> SizeFuseAttrOut
      [] opcode \in {"FuseLookup", "FuseMkdir", "FuseCreate", "FuseRename",
                     "FuseRename2", "FuseLink", "FuseUnlink"} -> SizeFuseEntryOut
      [] opcode = "FuseWrite" ->
            IF headerout_len > SizeFuseOutHeader THEN SizeFuseWriteOut ELSE 0
      [] opcode = "FuseStatfs" -> SizeFuseStatfsOut
      [] opcode \in {"FuseFlush", "FuseReleasedir", "FuseRelease", "FuseInterrupt",
                     "FuseDestroy", "FuseForget", "FuseBatchForget"} -> 0

\* the values the len field of a FuseOutHeader read at offset at of a buffer can
\* have: the device's, when the device wrote its out-header there, else whatever
\* the bytes there hold (request fields, placeholder zeros)
HeaderOutLens(b, at) ==
    IF b.resp.at = at THEN {b.resp.len} ELSE {0, SizeFuseOutHeader + SizeFuseWriteOut}

\* the values the error field of that FuseOutHeader can have
HeaderOutErrors(b, at) ==
    IF b.resp.at = at THEN {b.resp.error} ELSE {0}

\* a handler that goes on to test_device when pop_used found nothing
IrqPopThenTestDevice ==
    /\ ~panicked
    /\ pc["irq"] = "idle"
    /\ lock[request_queues(0)] = "free"
    /\ IF vq[request_queues(0)].used = <<>>
       THEN /\ testCounter' = testCounter + 1
            /\ UNCHANGED <<pc, lock, vq, irq>>
       ELSE /\ irq' = [opcode |-> "none", tok |-> Head(vq[request_queues(0)].used).entry,
                       len |-> Head(vq[request_queues(0)].used).len,
                       headerout_at |-> 0, read_hi |-> 0,
                       error |-> 0, reports |-> FALSE]
            /\ vq' = [vq EXCEPT ![request_queues(0)].used = Tail(@),
                                ![request_queues(0)].free = @ + 2]
            /\ lock' = [lock EXCEPT ![request_queues(0)] = "irq"]
            /\ pc' = [pc EXCEPT !["irq"] = "popped"]
            /\ UNCHANGED testCounter
    /\ UNCHANGED <<cur, buffer, synced, ncalls, panicked>>

\* let mut request_queue = self.request_queues[0].disable_irq().lock();
\* let Ok((_, len)) = request_queue.pop_used() else { return; };
IrqPop ==
    /\ ~panicked
    /\ pc["irq"] = "idle"
    /\ lock[request_queues(0)] = "free"
    /\ IF vq[request_queues(0)].used = <<>>
       THEN UNCHANGED <<pc, lock, vq, irq>>
       ELSE /\ irq' = [opcode |-> "none", tok |-> Head(vq[request_queues(0)].used).entry,
                       len |-> Head(vq[request_queues(0)].used).len,
                       headerout_at |-> 0, read_hi |-> 0,
                       error |-> 0, reports |-> FALSE]
            /\ vq' = [vq EXCEPT ![request_queues(0)].used = Tail(@),
                                ![request_queues(0)].free = @ + 2]
            /\ lock' = [lock EXCEPT ![request_queues(0)] = "irq"]
            /\ pc' = [pc EXCEPT !["irq"] = "popped"]
    /\ UNCHANGED <<cur, buffer, synced, testCounter, ncalls, panicked>>

\* self.request_buffers[0].sync(0..len as usize)
IrqSync ==
    /\ ~panicked
    /\ pc["irq"] = "popped"
    /\ synced' = [synced EXCEPT ![request_buffers(0)] = [lo |-> 0, hi |-> irq.len]]
    /\ pc' = [pc EXCEPT !["irq"] = "synced"]
    /\ UNCHANGED <<cur, lock, buffer, vq, irq, testCounter, ncalls, panicked>>

\* reader.read_val::<FuseInHeader>(), FuseOpcode::try_from(headerin.opcode).unwrap(),
\* and the branch of that opcode
IrqDecode ==
    /\ ~panicked
    /\ pc["irq"] = "synced"
    /\ LET b == buffer[request_buffers(0)]
       IN  IF b.opcode \notin FuseOpcode
           THEN /\ panicked' = TRUE
                /\ UNCHANGED <<pc, irq>>
           ELSE IF b.opcode \notin DecodedOpcodes
           THEN /\ irq' = [irq EXCEPT !.opcode = b.opcode,
                                      !.read_hi = SizeFuseInHeader]
                /\ pc' = [pc EXCEPT !["irq"] = "decoded"]
                /\ UNCHANGED panicked
           ELSE LET at == SizeFuseInHeader + DecodeIn(b.opcode)
                IN  \E headerout_len \in HeaderOutLens(b, at) :
                    \E headerout_error \in HeaderOutErrors(b, at) :
                      /\ irq' = [irq EXCEPT
                                   !.opcode = b.opcode,
                                   !.headerout_at = at,
                                   !.read_hi = Min(at + SizeFuseOutHeader
                                                     + DecodeOut(b.opcode, headerout_len),
                                                   BufferBytes),
                                   !.error = headerout_error,
                                   !.reports = ReportsError(b.opcode)]
                      /\ pc' = [pc EXCEPT !["irq"] = "decoded"]
                      /\ UNCHANGED panicked
    /\ UNCHANGED <<cur, lock, buffer, synced, vq, testCounter, ncalls>>

\* TEST_COUNTER += 1; no arm of the match issues a call
test_device == testCounter' = testCounter + 1

\* drop(request_queue); test_device(&self)
IrqReturn ==
    /\ ~panicked
    /\ pc["irq"] = "decoded"
    /\ lock' = [lock EXCEPT ![request_queues(0)] = "free"]
    /\ test_device
    /\ irq' = NoIrq
    /\ pc' = [pc EXCEPT !["irq"] = "idle"]
    /\ UNCHANGED <<cur, buffer, synced, vq, ncalls, panicked>>

handle_recv_irq == IrqPop \/ IrqSync \/ IrqDecode \/ IrqReturn

Submit(t) == WriteBuffer(t) \/ SyncBuffer(t) \/ Enqueue(t) \/ Notify(t) \/ Return(t)

Next ==
    \/ \E t \in Threads :
         \/ init(t) \/ opendir(t) \/ readdir(t) \/ read(t) \/ open(t) \/ flush(t)
         \/ releasedir(t) \/ getattr(t) \/ setattr(t) \/ lookup(t) \/ release(t)
         \/ access(t) \/ statfs(t) \/ interrupt(t) \/ mkdir(t) \/ create(t)
         \/ destroy(t) \/ rename(t) \/ rename2(t) \/ write(t) \/ forget(t)
         \/ batch_forget(t) \/ link(t) \/ unlink(t)
         \/ Submit(t)
    \/ \E q \in Queues : DeviceComplete(q)
    \/ handle_recv_irq

Spec == Init /\ [][Next]_vars

\* the handler runs when the device raises the completion interrupt; the
\* device serves the chains it was given; a call, once entered, runs to its end
FairSpec ==
    /\ Spec
    /\ WF_vars(handle_recv_irq)
    /\ \A q \in Queues : WF_vars(DeviceComplete(q))
    /\ \A t \in Threads : WF_vars(Submit(t))

(***************************************************************************)
(* Properties.                                                             *)
(***************************************************************************)
\* the requests of queue q the device holds or has completed and the driver
\* has not popped
Outstanding(q) == vq[q].avail \o [i \in 1..Len(vq[q].used) |-> vq[q].used[i].entry]

\* the staging buffer paired with queue q, and the queue paired with buffer b
PairedBuffer(q) == IF q = hiprio_queue THEN hiprio_buffer
                   ELSE request_buffers(q - REQUEST_QUEUE_BASE_INDEX)
PairedQueue(b) == IF b = hiprio_buffer THEN hiprio_queue
                  ELSE request_queues(b - REQUEST_QUEUE_BASE_INDEX)

\* the staging buffer context c is in the middle of accessing, if any: a call
\* between its write and its sync, the handler between its pop and the end of
\* its decode
Accessed(c) ==
    IF c \in Threads
    THEN IF pc[c] = "written" THEN {cur[c].req.bufw} ELSE {}
    ELSE IF pc[c] \in {"popped", "synced"} THEN {request_buffers(0)} ELSE {}

PriorityOpcodes == {"FuseInterrupt", "FuseForget", "FuseBatchForget"}

\* C1: a call on general queue 0 never has written the queue's staging buffer
\* while an earlier request of that queue is still outstanding.
C1_NoAssemblyWhileOutstanding ==
    \A t \in Threads :
        (pc[t] = "written" /\ cur[t].req.q = request_queues(0))
            => Outstanding(request_queues(0)) = <<>>

\* C2: a context that is accessing a staging buffer holds the lock of the queue
\* the buffer is paired with, and no two contexts access one buffer at a time.
C2_BufferAccessUnderPairedLock ==
    /\ \A c \in Ctx : \A b \in Accessed(c) : lock[PairedQueue(b)] = c
    /\ \A c1, c2 \in Ctx : c1 # c2 => Accessed(c1) \cap Accessed(c2) = {}

\* C3: every enqueued chain references, in both its ranges, the staging buffer
\* paired with the queue it is enqueued on.
C3_ChainInPairedBuffer ==
    \A q \in Queues : \A i \in 1..Len(Outstanding(q)) :
        /\ Outstanding(q)[i].rd.stream = PairedBuffer(q)
        /\ Outstanding(q)[i].wr.stream = PairedBuffer(q)

\* C4: the opcode the handler read from the in-header and decoded by is the
\* opcode of the request whose completion it popped.
C4_DecodedOpcodeIsPoppedRequests ==
    pc["irq"] = "decoded" => irq.opcode = irq.tok.req.opcode

\* C5: on every queue, a request the device has completed is eventually popped
\* by the handler (unless the kernel has panicked).
C5_CompletionEventuallyPopped ==
    \A q \in Queues : (vq[q].used # <<>>) ~> (vq[q].used = <<>> \/ panicked)

\* what lies behind C5: no step of the driver takes a completion out of the
\* used ring of the priority queue
PriorityUsedNeverPopped ==
    [][Len(vq'[hiprio_queue].used) >= Len(vq[hiprio_queue].used)]_vars

\* C6: every enqueued chain has the readable range [0, len_in) and the writable
\* range [len_in, total_len), total_len being the bytes written to the buffer.
C6_RangesSplitWrittenExtent ==
    \A q \in Queues : \A i \in 1..Len(Outstanding(q)) :
        LET e == Outstanding(q)[i]
        IN  /\ e.rd.lo = 0 /\ e.rd.hi = e.req.len_in
            /\ e.wr.lo = e.req.len_in /\ e.wr.hi = e.len

\* C7: the len field of the in-header a call wrote equals the bytes of in-header
\* and input payload it wrote before the out-header placeholder, and equals
\* the split point len_in.
C7_HeaderLenIsWrittenInput ==
    \A t \in Threads :
        pc[t] = "written" =>
            /\ buffer[cur[t].req.bufw].hdr_len = buffer[cur[t].req.bufw].in_bytes
            /\ buffer[cur[t].req.bufw].hdr_len = cur[t].req.len_in

\* C8: interrupt, forget and batch_forget are enqueued on the priority queue
\* only, every other operation on general queue 0 only; nothing is enqueued on
\* the general queues 1..N-1, and no request on two queues.
C8_QueueOfOperation ==
    /\ \A q \in Queues : \A i \in 1..Len(Outstanding(q)) :
          IF Outstanding(q)[i].req.opcode \in PriorityOpcodes
          THEN q = hiprio_queue
          ELSE q = request_queues(0)
    /\ \A q1, q2 \in Queues : \A i \in 1..Len(Outstanding(q1)) :
          \A j \in 1..Len(Outstanding(q2)) :
             Outstanding(q1)[i].seq = Outstanding(q2)[j].seq => (q1 = q2 /\ i = j)

\* a priority request and a general request are enqueued at the same time
C8_Witness ==
    /\ Outstanding(hiprio_queue) # <<>>
    /\ Outstanding(request_queues(0)) # <<>>

\* C9: at the end of every operation, notify was called exactly if should_notify
\* answers true.
C9_DoorbellIffShouldNotify ==
    \A t \in Threads : pc[t] = "notified" => cur[t].rang = cur[t].needs

\* C10: the handler reads no staging-buffer byte at an offset >= len, the
\* written length of the completion it popped.
C10_NoReadPastLen ==
    pc["irq"] = "decoded" => irq.read_hi <= irq.len

(***************************************************************************)
(* FuseReaddirOut::read_dirent (request.rs), the decoder the FuseReaddir   *)
(* branch of handle_recv_irq calls, applied to every response of a device: *)
(* the len of the out-header and the directory entries that follow it. An  *)
(* entry is modelled by its namelen; behind the entries the device wrote   *)
(* lie the zero bytes of the placeholder, which read as entries of         *)
(* namelen 0.                                                              *)
(***************************************************************************)
\* entries in one response
MaxDirents == 2
\* longest name of an entry
MaxDirentNameLen == 9
\* most bytes a response declares behind its out-header
MaxReaddirPayload == 88

SizeFuseDirent == 24

RECURSIVE SeqsUpTo(_, _)
SeqsUpTo(S, n) ==
    IF n = 0 THEN {<<>>}
    ELSE LET shorter == SeqsUpTo(S, n - 1)
         IN  shorter \cup {Append(s, x) : s \in {z \in shorter : Len(z) = n - 1}, x \in S}

DirentStreams == SeqsUpTo(1..MaxDirentNameLen, MaxDirents)

\* let pad_len = (8 - (dirent.namelen & 0x7)) & 0x7
dirent_pad_len(namelen) == (8 - (namelen % 8)) % 8

\* size_of::<FuseDirent>() + dirent.namelen + pad_len
dirent_size(namelen) == SizeFuseDirent + namelen + dirent_pad_len(namelen)

RECURSIVE SumDirents(_)
SumDirents(dirents) ==
    IF dirents = <<>> THEN 0
    ELSE dirent_size(Head(dirents)) + SumDirents(Tail(dirents))

\* the handler is inside read_dirent(&mut reader, headerout): reader holds the
\* entries not yet read, len is the local of that name
ReaddirInit ==
    /\ pc = [c \in Ctx |-> IF c = "irq" THEN "read_dirent" ELSE "idle"]
    /\ cur = [t \in Threads |-> NoReq]
    /\ lock = [q \in Queues |-> IF q = request_queues(0) THEN "irq" ELSE "free"]
    /\ buffer = [b \in Buffers |->
                   [opcode |-> IF b = request_buffers(0) THEN "FuseReaddir" ELSE "none",
                    hdr_len |-> 0, in_bytes |-> 0, total |-> 0,
                    seq |-> 0, resp |-> NoResp]]
    /\ synced = [b \in Buffers |-> [lo |-> 0, hi |-> 0]]
    /\ vq = [q \in Queues |-> [free |-> QueueSize(q), avail |-> <<>>, used |-> <<>>]]
    /\ \E payload \in 0..MaxReaddirPayload, stream \in DirentStreams :
         irq = [opcode |-> "FuseReaddir",
                out_header_len |-> SizeFuseOutHeader + payload,
                reader |-> stream,
                len |-> payload,
                dirents |-> <<>>]
    /\ testCounter = 1
    /\ ncalls = 0
    /\ panicked = FALSE

\* one turn of while len > 0 { .. }
read_dirent_loop ==
    /\ pc["irq"] = "read_dirent"
    /\ irq.len > 0
    /\ LET namelen == IF irq.reader = <<>> THEN 0 ELSE Head(irq.reader)
       IN  irq' = [irq EXCEPT
                     !.reader = IF @ = <<>> THEN @ ELSE Tail(@),
                     !.dirents = Append(@, namelen),
                     !.len = @ - dirent_size(namelen)]
    /\ UNCHANGED <<pc, cur, lock, buffer, synced, vq, testCounter, ncalls, panicked>>

\* FuseReaddirOut { dirents: dirents }
read_dirent_return ==
    /\ pc["irq"] = "read_dirent"
    /\ irq.len <= 0
    /\ pc' = [pc EXCEPT !["irq"] = "read_dirent_returned"]
    /\ UNCHANGED <<cur, lock, buffer, synced, vq, irq, testCounter, ncalls, panicked>>

read_dirent == read_dirent_loop \/ read_dirent_return

ReaddirSpec == ReaddirInit /\ [][read_dirent]_vars

\* C11: read_dirent returns a list of entries only if the sizes of the entries
\* it decoded (fixed record, name, padding) add up to exactly
\* out_header.len - size_of FuseOutHeader.
C11_ReturnedEntriesFillDeclaredLen ==
    pc["irq"] = "read_dirent_returned" =>
        SumDirents(irq.dirents) = irq.out_header_len - SizeFuseOutHeader

\* what read_dirent does for a response whose entries overrun the declared
\* length: it returns them, the last one reaching past that length
C11_OverrunAccepted ==
    /\ pc["irq"] = "read_dirent_returned"
    /\ irq.dirents # <<>>
    /\ SumDirents(irq.dirents) > irq.out_header_len - SizeFuseOutHeader

(***************************************************************************)
(* write, from its entry to concat_req, applied to every payload: the      *)
(* locals data (the argument, then the padded copy that shadows it),       *)
(* headerin, writein and len_in. A payload is a sequence of bytes.         *)
(***************************************************************************)
\* the payloads of 0..MaxDataLen bytes, none of their bytes zero
Payloads == {[i \in 1..n |-> 1 + (i % 2)] : n \in 0..MaxDataLen}

\* data padded with 8 - (len & 7) zero bytes, one padding too many for a
\* payload that is a multiple of 8 already
pad_data_full_word(data) == data \o [i \in 1..(8 - (Len(data) % 8)) |-> 0]

\* let data = [data, vec![0u8; (8 - (data.len() & 0x7)) & 0x7].as_slice()].concat()
pad_data(data) == data \o [i \in 1..((8 - (Len(data) % 8)) % 8) |-> 0]

\* the locals of write at concat_req: arg is the data the caller passed
write_locals(arg) ==
    LET data == pad_data(arg)
    IN  [opcode |-> "FuseWrite",
         arg |-> arg,
         data |-> data,
         headerin |-> [len |-> SizeFuseInHeader + SizeFuseWriteIn + Len(data),
                       opcode |-> "FuseWrite"],
         writein |-> [size |-> Len(data)],
         concat_req |-> SizeFuseInHeader + SizeFuseWriteIn + Len(data)
                          + SizeFuseOutHeader + SizeFuseWriteOut,
         len_in |-> SizeFuseWriteIn + SizeFuseInHeader + Len(data)]

\* each thread is about to call write with a payload of its own
WriteInit ==
    /\ pc = [c \in Ctx |-> "idle"]
    /\ \E arg1, arg2 \in Payloads :
         cur = [t \in Threads |-> [opcode |-> "none",
                                    arg |-> IF t = "t1" THEN arg1 ELSE arg2]]
    /\ lock = [q \in Queues |-> "free"]
    /\ buffer = [b \in Buffers |->
                   [opcode |-> "none", hdr_len |-> 0, in_bytes |-> 0, total |-> 0,
                    seq |-> 0, resp |-> NoResp]]
    /\ synced = [b \in Buffers |-> [lo |-> 0, hi |-> 0]]
    /\ vq = [q \in Queues |-> [free |-> QueueSize(q), avail |-> <<>>, used |-> <<>>]]
    /\ irq = NoIrq
    /\ testCounter = 1
    /\ ncalls = 0
    /\ panicked = FALSE

\* write(nodeid, fh, offset, data) from the lock of request_queues[0] to
\* concat_req
write_assemble(t) ==
    /\ pc[t] = "idle"
    /\ lock[request_queues(0)] = "free"
    /\ lock' = [lock EXCEPT ![request_queues(0)] = t]
    /\ cur' = [cur EXCEPT ![t] = write_locals(cur[t].arg)]
    /\ pc' = [pc EXCEPT ![t] = "assembled"]
    /\ UNCHANGED <<buffer, synced, vq, irq, testCounter, ncalls, panicked>>

WriteSpec == WriteInit /\ [][\E t \in Threads : write_assemble(t)]_vars

\* C12: the size field of the FuseWriteIn that write builds for a payload of N
\* bytes is N, the length of the payload before padding.
C12_WriteInSizeIsUnpaddedLen ==
    \A t \in Threads :
        pc[t] = "assembled" => cur[t].writein.size = Len(cur[t].arg)

\* C13: the payload write places in the request is the N bytes passed followed
\* by (8 - (N mod 8)) mod 8 zero bytes, its length the smallest multiple of 8
\* that is >= N, and len_in and headerin.len are size_of FuseInHeader +
\* size_of FuseWriteIn + that length, as in the request the call enqueues.
C13_PayloadPaddedToMultipleOf8 ==
    \A t \in Threads :
        pc[t] = "assembled" =>
            LET N == Len(cur[t].arg)
                data == cur[t].data
            IN  /\ SubSeq(data, 1, N) = cur[t].arg
                /\ Len(data) = N + ((8 - (N % 8)) % 8)
                /\ \A i \in (N + 1)..Len(data) : data[i] = 0
                /\ Len(data) % 8 = 0
                /\ Len(data) >= N /\ Len(data) < N + 8
                /\ cur[t].len_in = SizeFuseInHeader + SizeFuseWriteIn + Len(data)
                /\ cur[t].headerin.len = cur[t].len_in
                /\ write_req(N).len_in = cur[t].len_in
                /\ write_req(N).in_bytes = cur[t].len_in

\* write has assembled a payload of 8k + 7 bytes, which it padded by one byte
C13_Witness ==
    /\ pc["t1"] = "assembled"
    /\ Len(cur["t1"].arg) % 8 = 7
    /\ Len(cur["t1"].data) = Len(cur["t1"].arg) + 1

(***************************************************************************)
(* handle_recv_irq applied to every completion of general queue 0: one     *)
(* request was assembled and enqueued, the device has answered it, and the *)
(* handler runs. The staging buffer is DMA memory the device shares        *)
(* (DmaDirection::Bidirectional): the opcode field the handler finds in    *)
(* the in-header is the one the operation wrote, or a value the device     *)
(* left there.                                                             *)
(***************************************************************************)
\* what the operations that enqueue on general queue 0 build
GeneralRequests ==
    {init_req, opendir_req, readdir_req, read_req, open_req, flush_req,
     releasedir_req, getattr_req, setattr_req, release_req, access_req,
     statfs_req, destroy_req}
    \cup {lookup_req(name) : name \in NameLens}
    \cup {mkdir_req(name) : name \in NameLens}
    \cup {create_req(name) : name \in NameLens}
    \cup {link_req(name) : name \in NameLens}
    \cup {unlink_req(name) : name \in NameLens}
    \cup {rename_req(name, newname) : name \in NameLens, newname \in NameLens}
    \cup {rename2_req(name, newname) : name \in NameLens, newname \in NameLens}
    \cup {write_req(data) : data \in DataLens}

\* the opcode field of the in-header of the completed buffer of request r
CompletedOpcodes(r) == {r.opcode, "FuseSymlink", "none"}

DispatchInit ==
    /\ pc = [c \in Ctx |-> "idle"]
    /\ cur = [t \in Threads |-> NoReq]
    /\ lock = [q \in Queues |-> "free"]
    /\ irq = NoIrq
    /\ testCounter = 1
    /\ ncalls = 1
    /\ panicked = FALSE
    /\ \E r \in GeneralRequests : \E opcode \in CompletedOpcodes(r) :
         LET len == Min(r.in_bytes + r.out_bytes, BufferBytes)
             entry == [req |-> r, seq |-> 1, len |-> len,
                       rd |-> DmaStreamSlice(r.bufw, 0, r.len_in),
                       wr |-> DmaStreamSlice(r.bufw, r.len_in, len)]
         IN  \E w \in ResponseLens(entry) : \E e \in ResponseErrors(entry, w) :
               /\ buffer = [b \in Buffers |->
                    IF b = r.bufw
                    THEN [opcode |-> opcode, hdr_len |-> r.hdr_len,
                          in_bytes |-> Min(r.in_bytes, len), total |-> len, seq |-> 1,
                          resp |-> [at |-> entry.wr.lo, len |-> w, error |-> e]]
                    ELSE [opcode |-> "none", hdr_len |-> 0, in_bytes |-> 0,
                          total |-> 0, seq |-> 0, resp |-> NoResp]]
               /\ synced = [b \in Buffers |->
                    IF b = r.bufw THEN [lo |-> 0, hi |-> len] ELSE [lo |-> 0, hi |-> 0]]
               /\ vq = [q \in Queues |->
                    IF q = r.q
                    THEN [free |-> QueueSize(q) - 2, avail |-> <<>>,
                          used |-> <<[entry |-> entry, len |-> w]>>]
                    ELSE [free |-> QueueSize(q), avail |-> <<>>, used |-> <<>>]]

DispatchSpec == DispatchInit /\ [][handle_recv_irq]_vars

\* C14: the handler finishes the decode of a completion only if the opcode in
\* the in-header of the buffer is one it has a branch for; for any other
\* opcode it ends in a hard error and does not return as if the completion
\* had been handled.
C14_UndecodableOpcodeIsHardError ==
    pc["irq"] = "decoded" => buffer[request_buffers(0)].opcode \in DecodedOpcodes

\* an opcode value that is no FuseOpcode does end in a hard error: the handler
\* panics right after the sync
C14_UndefinedOpcodePanics ==
    /\ panicked
    /\ pc["irq"] = "synced"
    /\ buffer[request_buffers(0)].opcode \notin FuseOpcode

\* C15: when the device answered a request with the out-header alone and a
\* negative error code, the handler finishes the decode without a hard error,
\* and the error code it reports is that code.
C15_BackendErrorReported ==
    (/\ pc["irq"] = "decoded"
     /\ buffer[request_buffers(0)].opcode \in DecodedOpcodes
     /\ buffer[request_buffers(0)].resp.len = SizeFuseOutHeader
     /\ buffer[request_buffers(0)].resp.error < 0)
        => (irq.reports /\ irq.error = buffer[request_buffers(0)].resp.error)

\* the branches that do report the backend's error code: the handler has
\* decoded an error answer to open and read the code the device wrote
C15_OpenErrorReported ==
    /\ pc["irq"] = "decoded"
    /\ irq.opcode = "FuseOpen"
    /\ buffer[request_buffers(0)].resp.error < 0
    /\ irq.reports /\ irq.error = buffer[request_buffers(0)].resp.error

(***************************************************************************)
(* Failures of the submission path (under Spec).                           *)
(***************************************************************************)
\* C16: a call whose descriptor chain the queue rejects ends with an error
\* outcome for its caller: the driver is not aborted.
C16_RejectedChainIsNotAbort ==
    \A t \in Threads : pc[t] = "add_dma_buf_failed" => ~panicked

\* C17: a call whose descriptor chain the queue rejects leaves the staging
\* buffer as it was before the call: the buffer does not hold the request of
\* the failed call, and the last sync of it is not that call's.
C17_FailedCallLeavesBufferUntouched ==
    \A t \in Threads :
        pc[t] = "add_dma_buf_failed" =>
            /\ buffer[cur[t].req.bufw].seq # cur[t].seq
            /\ synced[cur[t].req.bufw].hi # cur[t].len

\* the descriptor state is left as it was: the rejected chain is on no queue
C17_RejectedChainNotEnqueued ==
    /\ \E t \in Threads : pc[t] = "add_dma_buf_failed"
    /\ \A t \in Threads :
         pc[t] = "add_dma_buf_failed" =>
            \A q \in Queues : \A i \in 1..Len(Outstanding(q)) :
                Outstanding(q)[i].seq # cur[t].seq

(***************************************************************************)
(* Device bring-up. The context "boot" is the virtio component bringing    *)
(* the device up: it negotiates the features through                       *)
(* FilesystemDevice::negotiate_features and then calls                     *)
(* FilesystemDevice::init. Queues, locks and staging buffers exist from    *)
(* the step that allocates them; the handler can run once its callback is  *)
(* registered; the operations can be called once init has returned.        *)
(***************************************************************************)
\* bits of a feature word (64 in the device)
FeatureBits == 7

FeatureWords == 0..(2 ^ FeatureBits - 1)

\* bit i of the word x
Bit(x, i) == (x \div (2 ^ i)) % 2

\* x & y
RECURSIVE BitAnd(_, _)
BitAnd(x, y) ==
    IF x = 0 \/ y = 0 THEN 0
    ELSE (x % 2) * (y % 2) + 2 * BitAnd(x \div 2, y \div 2)

\* the flags of FilesystemFeatures (config.rs): VIRTIO_FS_F_NOTIFICATION
FilesystemFeatures_all == 1

\* FilesystemFeatures::supported_features() (config.rs)
supported_features == 1

\* FilesystemFeatures::from_bits_truncate(bits): the bits that are flags
from_bits_truncate(bits) == BitAnd(bits, FilesystemFeatures_all)

\* negotiate_features without the mask: the offered word handed back
negotiate_features_unmasked(features) == features

\* FilesystemDevice::negotiate_features(features)
negotiate_features(features) ==
    LET device_features == from_bits_truncate(features)
        filesystem_features == BitAnd(device_features, supported_features)
    IN  filesystem_features

BootCtx == Ctx \cup {"boot"}

LifecycleInit ==
    /\ pc = [c \in BootCtx |->
               CASE c = "boot" -> "Uninitialized"
                 [] c = "irq" -> "unregistered"
                 [] OTHER -> "no_device"]
    /\ cur = [c \in Threads \cup {"boot"} |-> NoReq]
    /\ lock = [q \in {} |-> "free"]
    /\ buffer = [b \in {} |-> NoResp]
    /\ synced = [b \in {} |-> NoResp]
    /\ vq = [q \in {} |-> NoResp]
    /\ irq = NoIrq
    /\ testCounter = 0
    /\ ncalls = 0
    /\ panicked = FALSE

\* the component negotiates the features the device offers
BootNegotiate ==
    /\ pc["boot"] = "Uninitialized"
    /\ \E offered \in FeatureWords :
         cur' = [cur EXCEPT !["boot"] = [opcode |-> "none", offered |-> offered,
                                         features |-> negotiate_features(offered)]]
    /\ pc' = [pc EXCEPT !["boot"] = "FeaturesNegotiated"]
    /\ UNCHANGED <<lock, buffer, synced, vq, irq, testCounter, ncalls, panicked>>

\* let fs_config: VirtioFilesystemConfig = config_manager.read_config(): the
\* call returns a configuration, it has no failure to report; init is not given
\* the negotiated feature word and looks at no feature bit, the word stays
\* with the component until init returns
BootReadConfig ==
    /\ pc["boot"] = "FeaturesNegotiated"
    /\ \E n \in 1..NumRequestQueues :
         cur' = [cur EXCEPT !["boot"] = [opcode |-> "none", num_request_queues |-> n,
                                         features |-> cur["boot"].features]]
    /\ pc' = [pc EXCEPT !["boot"] = "ConfigRead"]
    /\ UNCHANGED <<lock, buffer, synced, vq, irq, testCounter, ncalls, panicked>>

\* SpinLock::new(VirtQueue::new(index, size, ..).unwrap()): hiprio_queue, then
\* one turn of for i in 0..fs_config.num_request_queues
BootAllocQueue ==
    /\ pc["boot"] = "ConfigRead"
    /\ LET k == Cardinality(DOMAIN vq)
           q == IF k = 0 THEN hiprio_queue ELSE request_queues(k - 1)
       IN  /\ vq' = vq @@ (q :> [free |-> QueueSize(q), avail |-> <<>>, used |-> <<>>])
           /\ lock' = lock @@ (q :> "free")
           /\ pc' = [pc EXCEPT !["boot"] =
                       IF k = cur["boot"].num_request_queues
                       THEN "QueuesAllocated" ELSE @]
    /\ UNCHANGED <<cur, buffer, synced, irq, testCounter, ncalls, panicked>>

\* DmaStream::map(alloc_segment(3), Bidirectional, false): hiprio_buffer, then
\* one turn of for _ in 0..fs_config.num_request_queues
BootAllocBuffer ==
    /\ pc["boot"] = "QueuesAllocated"
    /\ LET k == Cardinality(DOMAIN buffer)
           b == IF k = 0 THEN hiprio_buffer ELSE request_buffers(k - 1)
       IN  /\ buffer' = buffer @@ (b :> [opcode |-> "none", hdr_len |-> 0,
                                         in_bytes |-> 0, total |-> 0, seq |-> 0,
                                         resp |-> NoResp])
           /\ synced' = synced @@ (b :> [lo |-> 0, hi |-> 0])
           /\ pc' = [pc EXCEPT !["boot"] =
                       IF k = cur["boot"].num_request_queues
                       THEN "BuffersAllocated" ELSE @]
    /\ UNCHANGED <<cur, lock, vq, irq, testCounter, ncalls, panicked>>

\* the callbacks registered and the device handed to callers at once, before
\* finish_init
BootRegisterCallbacksAndPublish ==
    /\ pc["boot"] = "BuffersAllocated"
    /\ pc' = [c \in BootCtx |-> IF c = "boot" THEN "CallbacksRegistered" ELSE "idle"]
    /\ UNCHANGED <<cur, lock, buffer, synced, vq, irq, testCounter, ncalls, panicked>>

\* Arc::new(Self { .. }), register_queue_callback(REQUEST_QUEUE_BASE_INDEX + 0,
\* handle_request), register_cfg_callback(config_space_change)
BootRegisterCallbacks ==
    /\ pc["boot"] = "BuffersAllocated"
    /\ pc' = [pc EXCEPT !["boot"] = "CallbacksRegistered", !["irq"] = "idle"]
    /\ UNCHANGED <<cur, lock, buffer, synced, vq, irq, testCounter, ncalls, panicked>>

\* transport.finish_init()
BootFinishInit ==
    /\ pc["boot"] = "CallbacksRegistered"
    /\ pc' = [pc EXCEPT !["boot"] = "Ready"]
    /\ UNCHANGED <<cur, lock, buffer, synced, vq, irq, testCounter, ncalls, panicked>>

\* test_device(&device); Ok(()): init has returned, the operations of the
\* device can be called
BootReturn ==
    /\ pc["boot"] = "Ready"
    /\ \A t \in Threads : pc[t] = "no_device"
    /\ test_device
    /\ pc' = [c \in BootCtx |-> IF c \in Threads THEN "idle" ELSE pc[c]]
    /\ cur' = [cur EXCEPT !["boot"] =
                 [opcode |-> "none",
                  num_request_queues |-> cur["boot"].num_request_queues]]
    /\ UNCHANGED <<lock, buffer, synced, vq, irq, ncalls, panicked>>

BringUp ==
    \/ BootNegotiate \/ BootReadConfig \/ BootAllocQueue \/ BootAllocBuffer
    \/ BootRegisterCallbacks \/ BootFinishInit \/ BootReturn

LifecycleNext ==
    \/ BringUp
    \/ \E t \in Threads :
         \/ init(t) \/ opendir(t) \/ readdir(t) \/ read(t) \/ open(t) \/ flush(t)
         \/ releasedir(t) \/ getattr(t) \/ setattr(t) \/ lookup(t) \/ release(t)
         \/ access(t) \/ statfs(t) \/ interrupt(t) \/ mkdir(t) \/ create(t)
         \/ destroy(t) \/ rename(t) \/ rename2(t) \/ write(t) \/ forget(t)
         \/ batch_forget(t) \/ link(t) \/ unlink(t)
         \/ Submit(t)
    \/ \E q \in DOMAIN vq : DeviceComplete(q)
    \/ handle_recv_irq

LifecycleSpec == LifecycleInit /\ [][LifecycleNext]_vars

\* negotiate_features applied to every offered feature word
NegotiateSpec == LifecycleInit /\ [][BootNegotiate]_vars

\* the stages of bring-up, in the order of the lifecycle
BootStages ==
    <<"Uninitialized", "FeaturesNegotiated", "ConfigRead", "QueuesAllocated",
      "BuffersAllocated", "CallbacksRegistered", "Ready">>

StageRank(stage) == CHOOSE i \in 1..Len(BootStages) : BootStages[i] = stage

\* the queues a configuration of n request queues asks for
ConfiguredQueues(n) == {HIPRIO_QUEUE_INDEX} \cup {REQUEST_QUEUE_BASE_INDEX + i : i \in 0..(n - 1)}

\* what has been set up agrees with the stage bring-up is in
StageMatchesSetup ==
    LET rank == StageRank(pc["boot"])
    IN  /\ rank < StageRank("ConfigRead") => DOMAIN vq = {}
        /\ rank >= StageRank("QueuesAllocated") =>
              DOMAIN vq = ConfiguredQueues(cur["boot"].num_request_queues)
        /\ rank < StageRank("QueuesAllocated") => DOMAIN buffer = {}
        /\ rank >= StageRank("BuffersAllocated") =>
              DOMAIN buffer = ConfiguredQueues(cur["boot"].num_request_queues)
        /\ (rank < StageRank("CallbacksRegistered")) = (pc["irq"] = "unregistered")

\* nothing of the operations has happened: no thread is in a call, no chain is
\* or was enqueued
NoOperationYet ==
    /\ \A t \in Threads : pc[t] \in {"no_device", "idle"}
    /\ ncalls = 0
    /\ \A q \in DOMAIN vq : vq[q].avail = <<>> /\ vq[q].used = <<>>

\* C18: bring-up goes through feature negotiation, configuration read, queue
\* allocation, buffer allocation, callback registration and finish_init one
\* after the other, each once; no operation enqueues a chain before
\* finish_init has completed; a device that is Ready stays Ready.
C18_BringUpIsLinear ==
    /\ [](StageMatchesSetup /\ (pc["boot"] # "Ready" => NoOperationYet))
    /\ [][\/ pc'["boot"] = pc["boot"]
          \/ StageRank(pc'["boot"]) = StageRank(pc["boot"]) + 1]_vars
    /\ [][pc["boot"] = "Ready" => pc'["boot"] = "Ready"]_vars

\* the device is Ready and an operation has enqueued a chain
C18_Witness ==
    /\ pc["boot"] = "Ready"
    /\ \E q \in DOMAIN vq : vq[q].avail # <<>>

\* descriptors of queue q: the free ones and two per chain enqueued
Depth(q) == vq[q].free + 2 * (Len(vq[q].avail) + Len(vq[q].used))

\* C19: once FilesystemDevice::init has allocated queues and buffers for
\* num_request_queues = N, and ever after, there are the priority queue 0 of
\* depth 2, the N general queues 1..N of depth 4, and one staging buffer for
\* each of these N + 1 queues.
C19_QueuesAndBuffersOfConfig ==
    StageRank(pc["boot"]) >= StageRank("BuffersAllocated") =>
        LET N == cur["boot"].num_request_queues
        IN  /\ DOMAIN vq = {0} \cup 1..N
            /\ Cardinality(DOMAIN vq) = N + 1
            /\ Depth(0) = 2
            /\ \A q \in 1..N : Depth(q) = 4
            /\ DOMAIN lock = DOMAIN vq
            /\ DOMAIN buffer = {0} \cup 1..N
            /\ Cardinality(DOMAIN buffer) = N + 1
            /\ DOMAIN synced = DOMAIN buffer

\* a device configured with two request queues is Ready, and requests are
\* under way on the priority queue and on a general queue
C19_Witness ==
    /\ pc["boot"] = "Ready"
    /\ cur["boot"].num_request_queues = 2
    /\ vq[0].used # <<>>
    /\ vq[1].avail # <<>>

\* C20: negotiate_features returns the bits that are both offered by the
\* device and supported by the driver, and no other bit.
C20_NegotiatedIsIntersection ==
    pc["boot"] = "FeaturesNegotiated" =>
        \A i \in 0..(FeatureBits - 1) :
            (Bit(cur["boot"].features, i) = 1)
                <=> (Bit(cur["boot"].offered, i) = 1 /\ Bit(supported_features, i) = 1)

\* the device offered a supported bit and an unsupported one
C20_Witness ==
    /\ pc["boot"] = "FeaturesNegotiated"
    /\ \E i, j \in 0..(FeatureBits - 1) :
         /\ Bit(cur["boot"].offered, i) = 1 /\ Bit(supported_features, i) = 1
         /\ Bit(cur["boot"].features, i) = 1
         /\ Bit(cur["boot"].offered, j) = 1 /\ Bit(supported_features, j) = 0

\* C21: when feature negotiation leaves no usable feature, or the read of the
\* configuration fails, FilesystemDevice::init registers no callback, does not
\* call finish_init, and the device does not become Ready.
C21_NoBringUpWithoutFeatures ==
    ("features" \in DOMAIN cur["boot"] /\ cur["boot"].features = 0) =>
        /\ StageRank(pc["boot"]) < StageRank("CallbacksRegistered")
        /\ pc["irq"] = "unregistered"

\* negotiation left no feature, and the device is Ready with its callback
\* registered
C21_ReadyWithoutFeatures ==
    /\ "features" \in DOMAIN cur["boot"] /\ cur["boot"].features = 0
    /\ pc["boot"] = "Ready"
    /\ pc["irq"] = "idle"

\* every request the device holds or has completed and the driver has not
\* popped, with the queue it is on
InFlight == UNION {{<<q, i>> : i \in 1..Len(Outstanding(q))} : q \in Queues}

\* C22: any two requests that are in flight at the same time, on the same
\* queue or on the priority queue and a general queue, carry different
\* unique values in their in-headers.
C22_UniqueIdentifiesRequest ==
    \A a, b \in InFlight :
        a # b => Outstanding(a[1])[a[2]].req.unique # Outstanding(b[1])[b[2]].req.unique

\* two requests on the general queue at once, both with unique 0
C22_TwoInFlightShareUnique ==
    /\ Len(vq[request_queues(0)].avail) = 2
    /\ \A i \in 1..2 : vq[request_queues(0)].avail[i].req.unique = 0

(***************************************************************************)
(* fuse_pad_str on the bytes of a name, and lookup up to concat_req.       *)
(***************************************************************************)
\* the names of 0..MaxNameLen bytes, none of them a zero byte
Names == {[i \in 1..n |-> 1 + (i % 2)] : n \in 0..MaxNameLen}

\* fuse_pad_str(name, repr_c): the bytes of the name, a zero terminator when
\* repr_c, then zero bytes up to the next multiple of 8
fuse_pad_str_bytes(name, repr_c) ==
    LET terminated == IF repr_c THEN Append(name, 0) ELSE name
    IN  terminated \o [i \in 1..((8 - (Len(terminated) % 8)) % 8) |-> 0]

\* lookup that passes false for repr_c: the name is padded without terminator
lookup_locals_unterminated(name) ==
    LET prepared_name == fuse_pad_str_bytes(name, FALSE)
    IN  [opcode |-> "FuseLookup",
         name |-> name,
         prepared_name |-> prepared_name,
         headerin |-> [len |-> SizeFuseInHeader + Len(prepared_name),
                       opcode |-> "FuseLookup"],
         len_in |-> Len(prepared_name) + SizeFuseInHeader]

\* the locals of lookup at concat_req: name is the name the caller passed
lookup_locals(name) ==
    LET prepared_name == fuse_pad_str_bytes(name, TRUE)
    IN  [opcode |-> "FuseLookup",
         name |-> name,
         prepared_name |-> prepared_name,
         headerin |-> [len |-> SizeFuseInHeader + Len(prepared_name),
                       opcode |-> "FuseLookup"],
         len_in |-> Len(prepared_name) + SizeFuseInHeader]

\* each thread is about to call lookup with a name of its own
PadInit ==
    /\ pc = [c \in Ctx |-> "idle"]
    /\ \E name1, name2 \in Names :
         cur = [t \in Threads |-> [opcode |-> "none",
                                    name |-> IF t = "t1" THEN name1 ELSE name2]]
    /\ lock = [q \in Queues |-> "free"]
    /\ buffer = [b \in Buffers |->
                   [opcode |-> "none", hdr_len |-> 0, in_bytes |-> 0, total |-> 0,
                    seq |-> 0, resp |-> NoResp]]
    /\ synced = [b \in Buffers |-> [lo |-> 0, hi |-> 0]]
    /\ vq = [q \in Queues |-> [free |-> QueueSize(q), avail |-> <<>>, used |-> <<>>]]
    /\ irq = NoIrq
    /\ testCounter = 1
    /\ ncalls = 0
    /\ panicked = FALSE

\* lookup(nodeid, name) from the lock of request_queues[0] to concat_req
lookup_assemble(t) ==
    /\ pc[t] = "idle"
    /\ lock[request_queues(0)] = "free"
    /\ lock' = [lock EXCEPT ![request_queues(0)] = t]
    /\ cur' = [cur EXCEPT ![t] = lookup_locals(cur[t].name)]
    /\ pc' = [pc EXCEPT ![t] = "assembled"]
    /\ UNCHANGED <<buffer, synced, vq, irq, testCounter, ncalls, panicked>>

PadSpec == PadInit /\ [][\E t \in Threads : lookup_assemble(t)]_vars

\* (8 - (n mod 8)) mod 8, the bytes that bring n to a multiple of 8
pad(n) == (8 - (n % 8)) % 8

\* C23: for every name of L bytes, the encoding fuse_pad_str produces with
\* the terminator enabled is the name, one zero terminator and pad(L + 1) zero
\* bytes; its length L + 1 + pad(L + 1) is a multiple of 8, the smallest one
\* above L, and is the length lookup counts in headerin.len and len_in, as in
\* the request the call enqueues.
C23_PaddedNameIsMultipleOf8 ==
    \A t \in Threads :
        pc[t] = "assembled" =>
            LET L == Len(cur[t].name)
                prepared_name == cur[t].prepared_name
            IN  /\ SubSeq(prepared_name, 1, L) = cur[t].name
                /\ \A i \in (L + 1)..Len(prepared_name) : prepared_name[i] = 0
                /\ Len(prepared_name) = L + 1 + pad(L + 1)
                /\ Len(prepared_name) % 8 = 0
                /\ Len(prepared_name) > L /\ Len(prepared_name) <= L + 8
                /\ Len(prepared_name) = fuse_pad_str(L, TRUE)
                /\ cur[t].headerin.len = SizeFuseInHeader + Len(prepared_name)
                /\ cur[t].len_in = cur[t].headerin.len
                /\ lookup_req(L).hdr_len = cur[t].headerin.len
                /\ lookup_req(L).len_in = cur[t].len_in

\* C23 as stated, with pad taken of the length L of the name: the encoding
\* has length L + pad(L) + 1 and that length is a multiple of 8.
C23_LengthIsNamePadPlusOne ==
    \A t \in Threads :
        pc[t] = "assembled" =>
            LET L == Len(cur[t].name)
            IN  /\ Len(cur[t].prepared_name) = L + pad(L) + 1
                /\ Len(cur[t].prepared_name) % 8 = 0

\* lookup has assembled a name of 8 bytes, which the terminator and 7 bytes
\* of padding bring to 16
C23_Witness ==
    /\ pc["t1"] = "assembled"
    /\ Len(cur["t1"].name) = 8
    /\ Len(cur["t1"].prepared_name) = 16

(***************************************************************************)
(* Submission without waiting.                                             *)
(***************************************************************************)
\* the steps of a call after it took the lock, in the order of the code
CallSteps == <<"locked", "written", "synced", "enqueued", "notified", "idle">>

CallRank(step) == CHOOSE i \in 1..Len(CallSteps) : CallSteps[i] = step

DecodedOwnRequest ==
    /\ pc["irq"] = "decoded"
    /\ irq.opcode = irq.tok.req.opcode
    /\ irq.opcode \in DecodedOpcodes

\* C25: for every opcode the dispatcher has a branch for, the offset at which
\* handle_recv_irq reads the FuseOutHeader is the split point len_in the
\* operation used for that request.
C25_OutHeaderReadAtSplitPoint ==
    DecodedOwnRequest => irq.headerout_at = irq.tok.req.len_in

\* the operations whose handler branch reads the input struct the operation
\* wrote and nothing else before the out-header
FixedInputOpcodes ==
    {"FuseInit", "FuseReaddir", "FuseOpendir", "FuseOpen", "FuseRead",
     "FuseReleasedir", "FuseGetattr", "FuseSetattr", "FuseRelease", "FuseAccess"}

\* what does hold: the offsets agree for these operations
C25_FixedInputOffsetsAgree ==
    (DecodedOwnRequest /\ irq.opcode \in FixedInputOpcodes) =>
        irq.headerout_at = irq.tok.req.len_in

\* the handler has decoded a lookup and read the out-header past the split point
C25_LookupReadPastSplitPoint ==
    /\ DecodedOwnRequest
    /\ irq.opcode = "FuseLookup"
    /\ irq.headerout_at > irq.tok.req.len_in

\* C26: once handle_recv_irq has synchronized the buffer for a popped
\* completion of written length len, every byte the device wrote, the range
\* [len_in, len_in + len) of the buffer, lies inside the synchronized range.
C26_DeviceWrittenBytesSynced ==
    (pc["irq"] \in {"synced", "decoded"} /\ irq.len > 0) =>
        /\ synced[request_buffers(0)].lo <= irq.tok.wr.lo
        /\ irq.tok.wr.lo + irq.len <= synced[request_buffers(0)].hi

\* the handler has synchronized [0, len) and the whole response lies after it
C26_ResponseOutsideSyncedRange ==
    /\ pc["irq"] = "synced"
    /\ irq.len > 0
    /\ synced[request_buffers(0)] = [lo |-> 0, hi |-> irq.len]
    /\ buffer[request_buffers(0)].resp.at = irq.tok.wr.lo
    /\ irq.tok.wr.lo >= synced[request_buffers(0)].hi

(***************************************************************************)
(* The order of the steps of a submission.                                 *)
(***************************************************************************)
\* caller t holds the lock of the queue its chain goes on
HoldsQueueLock(t) == lock[cur[t].req.q] = t

\* a step that takes caller t to the written, synced or enqueued point comes
\* from the point before it, under the queue lock: the write places the whole
\* request at offset 0 of the buffer, the sync is over [0, len) for the len
\* bytes written, the chain goes on the queue after the sync
WriteSyncEnqueueStep(t) ==
    /\ (pc'[t] = "written" /\ pc[t] # "written") =>
          /\ pc[t] = "locked" /\ HoldsQueueLock(t)
          /\ cur'[t].len = Min(cur[t].req.in_bytes + cur[t].req.out_bytes, BufferBytes)
          /\ buffer'[cur[t].req.bufw].total = cur'[t].len
          /\ buffer'[cur[t].req.bufw].seq = cur[t].seq
    /\ (pc'[t] = "synced" /\ pc[t] # "synced") =>
          /\ pc[t] = "written" /\ HoldsQueueLock(t)
          /\ synced'[cur[t].req.bufw] = [lo |-> 0, hi |-> cur[t].len]
    /\ (pc'[t] = "enqueued" /\ pc[t] # "enqueued") =>
          /\ pc[t] = "synced" /\ HoldsQueueLock(t)
          /\ Len(vq'[cur[t].req.q].avail) = Len(vq[cur[t].req.q].avail) + 1
          /\ vq'[cur[t].req.q].avail[Len(vq'[cur[t].req.q].avail)].seq = cur[t].seq
    /\ (pc[t] \in {"locked", "written"}) =>
          \A q \in Queues : \A i \in 1..Len(vq'[q].avail) :
              vq'[q].avail[i].seq # cur[t].seq

\* the step after the enqueue is the doorbell decision, under the queue lock,
\* and the call returns only after it
DoorbellStep(t) ==
    /\ (pc'[t] = "notified" /\ pc[t] # "notified") =>
          /\ pc[t] = "enqueued" /\ HoldsQueueLock(t)
          /\ cur[t].req.notifies
    /\ (pc'[t] = "idle" /\ pc[t] # "idle") =>
          pc[t] = "notified" /\ HoldsQueueLock(t)

\* C27: in every submission operation, all under the queue lock, the full
\* request is written into the staging buffer from offset 0, then sync is
\* issued over exactly [0, total_len), then the chain is enqueued, then the
\* doorbell decision is made; no chain is enqueued before its sync.
C27_StepsInOrderUnderLock ==
    [][\A t \in Threads : WriteSyncEnqueueStep(t) /\ DoorbellStep(t)]_vars

\* what does hold, for every operation: write, sync and enqueue in this
\* order under the queue lock
C27_WriteSyncEnqueueInOrder ==
    [][\A t \in Threads : WriteSyncEnqueueStep(t)]_vars

\* rename2 is past its enqueue without a doorbell decision of its own
C27_Rename2WithoutDoorbell ==
    \E t \in Threads :
        /\ pc[t] = "notified"
        /\ cur[t].req.opcode = "FuseRename2"
        /\ ~cur[t].req.notifies
        /\ cur[t].needs /\ ~cur[t].rang

(***************************************************************************)
(* The interrupt without a completion.                                     *)
(***************************************************************************)
\* the handler can be entered and the used ring of its queue is empty
SpuriousInterrupt ==
    /\ ~panicked
    /\ pc["irq"] = "idle"
    /\ lock[request_queues(0)] = "free"
    /\ vq[request_queues(0)].used = <<>>

\* C28: a run of handle_recv_irq that finds no completed descriptor returns
\* at once and leaves everything as it was: the buffer is neither synchronized
\* nor read, the queue is unchanged, TEST_COUNTER is unchanged (test_device is
\* not invoked), nothing panics, and the queue lock is free again.
C28_SpuriousInterruptChangesNothing ==
    [][(SpuriousInterrupt /\ IrqPop) =>
          /\ synced' = synced /\ buffer' = buffer
          /\ vq' = vq
          /\ testCounter' = testCounter
          /\ irq' = irq /\ pc' = pc
          /\ lock' = lock /\ lock'[request_queues(0)] = "free"
          /\ ~panicked'
          /\ UNCHANGED vars]_vars

\* the interrupt can arrive while a chain is with the device and none has
\* been completed: the handler has nothing to pop
C28_Witness ==
    /\ SpuriousInterrupt
    /\ ENABLED IrqPop
    /\ vq[request_queues(0)].avail # <<>>

(***************************************************************************)
(* batch_forget up to the slices, on the bytes of the request.             *)
(***************************************************************************)
\* largest nodeid and nlookup of a forget pair
MaxForgetValue == 2

\* the forget lists of 0..MaxForget pairs (nodeid, nlookup)
ForgetPairs == (1..MaxForgetValue) \X (1..MaxForgetValue)
ForgetLists == UNION {[1..n -> ForgetPairs] : n \in 0..MaxForget}

\* as_bytes() of an integer field of w bytes: little endian
RECURSIVE le_bytes(_, _)
le_bytes(x, w) == IF w = 0 THEN <<>> ELSE <<x % 256>> \o le_bytes(x \div 256, w - 1)

\* FuseOpcode::FuseBatchForget as u32
FUSE_BATCH_FORGET == 42

\* headerin.as_bytes(): len, opcode, unique, nodeid, uid, gid, pid,
\* total_extlen, padding
FuseInHeader_as_bytes(h) ==
    le_bytes(h.len, 4) \o le_bytes(h.opcode, 4) \o le_bytes(h.unique, 8)
        \o le_bytes(h.nodeid, 8) \o le_bytes(h.uid, 4) \o le_bytes(h.gid, 4)
        \o le_bytes(h.pid, 4) \o le_bytes(h.total_extlen, 2) \o le_bytes(h.padding, 2)

\* FuseForgetOne { nodeid, nlookup }.as_bytes()
FuseForgetOne_as_bytes(pair) == le_bytes(pair[1], 8) \o le_bytes(pair[2], 8)

\* forgetin_bytes after the loop over the first k pairs of forget_list
RECURSIVE forgetin_bytes(_, _)
forgetin_bytes(forget_list, k) ==
    IF k = 0 THEN <<>>
    ELSE forgetin_bytes(forget_list, k - 1) \o FuseForgetOne_as_bytes(forget_list[k])

\* the in-header batch_forget builds
batch_forget_headerin ==
    [len |-> SizeFuseBatchForgetIn + SizeFuseInHeader, opcode |-> FUSE_BATCH_FORGET,
     unique |-> 0, nodeid |-> 0, uid |-> 0, gid |-> 0, pid |-> 0,
     total_extlen |-> 0, padding |-> 0]

\* a batch_forget that writes a FuseBatchForgetIn { count, dummy } between the
\* in-header and the records
batch_forget_locals_with_count(forget_list) ==
    LET records == forgetin_bytes(forget_list, Len(forget_list))
        countin == le_bytes(Len(forget_list), 4) \o le_bytes(0, 4)
        concat_req == FuseInHeader_as_bytes(batch_forget_headerin) \o countin
                        \o records \o [i \in 1..SizeFuseOutHeader |-> 0]
        len_in == SizeFuseBatchForgetIn + Len(forget_list) * SizeFuseForgetOne
                    + SizeFuseInHeader
    IN  [opcode |-> "FuseBatchForget",
         forget_list |-> forget_list,
         headerin |-> batch_forget_headerin,
         concat_req |-> concat_req,
         len |-> Len(concat_req),
         len_in |-> len_in,
         slice_in |-> DmaStreamSlice(request_buffers(0), 0, len_in),
         slice_out |-> DmaStreamSlice(request_buffers(0), len_in, Len(concat_req))]

\* the locals of batch_forget at add_dma_buf
batch_forget_locals(forget_list) ==
    LET records == forgetin_bytes(forget_list, Len(forget_list))
        concat_req == FuseInHeader_as_bytes(batch_forget_headerin)
                        \o records \o [i \in 1..SizeFuseOutHeader |-> 0]
        len_in == Len(forget_list) * SizeFuseForgetOne + SizeFuseInHeader
    IN  [opcode |-> "FuseBatchForget",
         forget_list |-> forget_list,
         headerin |-> batch_forget_headerin,
         concat_req |-> concat_req,
         len |-> Len(concat_req),
         len_in |-> len_in,
         slice_in |-> DmaStreamSlice(request_buffers(0), 0, len_in),
         slice_out |-> DmaStreamSlice(request_buffers(0), len_in, Len(concat_req))]

\* each thread is about to call batch_forget with a forget list of its own
BatchForgetInit ==
    /\ pc = [c \in Ctx |-> "idle"]
    /\ \E list1, list2 \in ForgetLists :
         cur = [t \in Threads |-> [opcode |-> "none",
                                    forget_list |-> IF t = "t1" THEN list1 ELSE list2]]
    /\ lock = [q \in Queues |-> "free"]
    /\ buffer = [b \in Buffers |->
                   [opcode |-> "none", hdr_len |-> 0, in_bytes |-> 0, total |-> 0,
                    seq |-> 0, resp |-> NoResp]]
    /\ synced = [b \in Buffers |-> [lo |-> 0, hi |-> 0]]
    /\ vq = [q \in Queues |-> [free |-> QueueSize(q), avail |-> <<>>, used |-> <<>>]]
    /\ irq = NoIrq
    /\ testCounter = 1
    /\ ncalls = 0
    /\ panicked = FALSE

\* batch_forget(forget_list) from the lock of hiprio_queue to the slices
batch_forget_assemble(t) ==
    /\ pc[t] = "idle"
    /\ lock[hiprio_queue] = "free"
    /\ lock' = [lock EXCEPT ![hiprio_queue] = t]
    /\ cur' = [cur EXCEPT ![t] = batch_forget_locals(cur[t].forget_list)]
    /\ pc' = [pc EXCEPT ![t] = "assembled"]
    /\ UNCHANGED <<buffer, synced, vq, irq, testCounter, ncalls, panicked>>

BatchForgetSpec == BatchForgetInit /\ [][\E t \in Threads : batch_forget_assemble(t)]_vars

\* C29: for every forget list of n pairs, the request batch_forget writes is
\* the 40 bytes of the in-header, then, with no byte before or between them,
\* the n 16-byte records (nodeid, nlookup) in the order of the list, then the
\* 16 zero bytes of the out-header placeholder; the device-readable range is
\* [0, 40 + 16 n), the header and the records and nothing else.
C29_BatchForgetLayout ==
    \A t \in Threads :
        pc[t] = "assembled" =>
            LET forget_list == cur[t].forget_list
                n == Len(forget_list)
                req == cur[t].concat_req
                at(k) == SizeFuseInHeader + SizeFuseForgetOne * (k - 1)
            IN  /\ Len(req) = SizeFuseInHeader + SizeFuseForgetOne * n + SizeFuseOutHeader
                /\ SubSeq(req, 1, SizeFuseInHeader) = FuseInHeader_as_bytes(cur[t].headerin)
                /\ Len(FuseInHeader_as_bytes(cur[t].headerin)) = SizeFuseInHeader
                /\ SubSeq(req, 5, 8) = le_bytes(FUSE_BATCH_FORGET, 4)
                /\ \A k \in 1..n :
                      /\ SubSeq(req, at(k) + 1, at(k) + 8) = le_bytes(forget_list[k][1], 8)
                      /\ SubSeq(req, at(k) + 9, at(k) + 16) = le_bytes(forget_list[k][2], 8)
                /\ \A i \in (at(n + 1) + 1)..Len(req) : req[i] = 0
                /\ Len(req) - at(n + 1) = SizeFuseOutHeader
                /\ cur[t].len_in = SizeFuseInHeader + 16 * n
                /\ cur[t].slice_in = [stream |-> request_buffers(0), lo |-> 0,
                                      hi |-> SizeFuseInHeader + 16 * n]
                /\ batch_forget_req(n).len_in = cur[t].len_in
                /\ batch_forget_req(n).in_bytes = cur[t].len_in
                /\ batch_forget_req(n).in_bytes + batch_forget_req(n).out_bytes = Len(req)

\* batch_forget has assembled a list of two different pairs
C29_Witness ==
    /\ pc["t1"] = "assembled"
    /\ Len(cur["t1"].forget_list) = 2
    /\ cur["t1"].forget_list[1] # cur["t1"].forget_list[2]
    /\ cur["t1"].forget_list[1][1] # cur["t1"].forget_list[1][2]
    /\ Len(cur["t1"].concat_req) = 88

(***************************************************************************)
(* read and readdir up to the slices, for the size the caller asks for.    *)
(***************************************************************************)
\* largest size passed to read and readdir
MaxReadSize == 2048

\* the sizes callers ask for, in steps of a quarter of the placeholder
ReadSizes == {s \in 0..MaxReadSize : s % (ReadOutPlaceholder \div 4) = 0}

\* the locals of read and of readdir at add_dma_buf: the two functions differ
\* in the opcode alone; size goes into FuseReadIn.size and nowhere else
read_locals(opcode, size) ==
    LET concat_req == SizeFuseInHeader + SizeFuseReadIn + SizeFuseOutHeader
                        + ReadOutPlaceholder
        len == Min(concat_req, BufferBytes)
        len_in == SizeFuseReadIn + SizeFuseInHeader
    IN  [opcode |-> opcode,
         size |-> size,
         readin |-> [size |-> size],
         len |-> len,
         len_in |-> len_in,
         slice_in |-> DmaStreamSlice(request_buffers(0), 0, len_in),
         slice_out |-> DmaStreamSlice(request_buffers(0), len_in, len)]

\* each thread is about to call read or readdir with a size of its own
ReadInit ==
    /\ pc = [c \in Ctx |-> "idle"]
    /\ \E size1, size2 \in ReadSizes :
         cur = [t \in Threads |-> [opcode |-> "none",
                                    size |-> IF t = "t1" THEN size1 ELSE size2]]
    /\ lock = [q \in Queues |-> "free"]
    /\ buffer = [b \in Buffers |->
                   [opcode |-> "none", hdr_len |-> 0, in_bytes |-> 0, total |-> 0,
                    seq |-> 0, resp |-> NoResp]]
    /\ synced = [b \in Buffers |-> [lo |-> 0, hi |-> 0]]
    /\ vq = [q \in Queues |-> [free |-> QueueSize(q), avail |-> <<>>, used |-> <<>>]]
    /\ irq = NoIrq
    /\ testCounter = 1
    /\ ncalls = 0
    /\ panicked = FALSE

\* read(nodeid, fh, offset, size) from the lock of request_queues[0] to the slices
read_assemble(t) ==
    /\ pc[t] = "idle"
    /\ lock[request_queues(0)] = "free"
    /\ lock' = [lock EXCEPT ![request_queues(0)] = t]
    /\ cur' = [cur EXCEPT ![t] = read_locals("FuseRead", cur[t].size)]
    /\ pc' = [pc EXCEPT ![t] = "assembled"]
    /\ UNCHANGED <<buffer, synced, vq, irq, testCounter, ncalls, panicked>>

\* readdir(nodeid, fh, offset, size) from the lock of request_queues[0] to the
\* slices
readdir_assemble(t) ==
    /\ pc[t] = "idle"
    /\ lock[request_queues(0)] = "free"
    /\ lock' = [lock EXCEPT ![request_queues(0)] = t]
    /\ cur' = [cur EXCEPT ![t] = read_locals("FuseReaddir", cur[t].size)]
    /\ pc' = [pc EXCEPT ![t] = "assembled"]
    /\ UNCHANGED <<buffer, synced, vq, irq, testCounter, ncalls, panicked>>

ReadSpec ==
    ReadInit /\ [][\E t \in Threads : read_assemble(t) \/ readdir_assemble(t)]_vars

\* C30: for every read and readdir call with requested size s, the
\* device-writable region handed to the queue is at least
\* size_of FuseOutHeader + s bytes long.
C30_WritableRegionFitsRequestedSize ==
    \A t \in Threads :
        pc[t] = "assembled" =>
            cur[t].slice_out.hi - cur[t].slice_out.lo >= SizeFuseOutHeader + cur[t].size

\* what does hold: the region is the same whatever size is asked for, the one
\* of the request read and readdir enqueue, over a placeholder of 1024 bytes
C30_WritableRegionIgnoresSize ==
    \A t \in Threads :
        pc[t] = "assembled" =>
            /\ cur[t].slice_out = DmaStreamSlice(read_req.bufw, read_req.len_in,
                                                 read_req.in_bytes + read_req.out_bytes)
            /\ cur[t].slice_out = DmaStreamSlice(readdir_req.bufw, readdir_req.len_in,
                                                 readdir_req.in_bytes + readdir_req.out_bytes)
            /\ cur[t].len - cur[t].len_in = SizeFuseOutHeader + ReadOutPlaceholder
            /\ cur[t].readin.size = cur[t].size

\* read has been asked for twice the placeholder and hands the device a region
\* shorter than that
C30_RegionShorterThanRequested ==
    /\ pc["t1"] = "assembled"
    /\ cur["t1"].opcode = "FuseRead"
    /\ cur["t1"].size = 2 * ReadOutPlaceholder
    /\ cur["t1"].slice_out.hi - cur["t1"].slice_out.lo < cur["t1"].size

(***************************************************************************)
(* Submissions with arguments of the size of the staging buffer.           *)
(***************************************************************************)
\* the largest argument, in pages: the pages of a staging buffer
MaxArgPages == 3

\* argument lengths in bytes: whole pages up to MaxArgPages
PageLens == {PAGE_SIZE * p : p \in 1..MaxArgPages}

\* write, lookup and batch_forget called with a payload, a name and a forget
\* list of that many bytes
write_pages(t) == \E data \in PageLens : Call(t, write_req(data))
lookup_pages(t) == \E name \in PageLens : Call(t, lookup_req(name))
batch_forget_pages(t) ==
    \E bytes \in PageLens : Call(t, batch_forget_req(bytes \div SizeFuseForgetOne))

ExtentNext ==
    \E t \in Threads :
        \/ write_pages(t) \/ lookup_pages(t) \/ batch_forget_pages(t)
        \/ write(t) \/ lookup(t) \/ batch_forget(t)
        \/ Submit(t)

ExtentSpec == Init /\ [][ExtentNext]_vars

\* caller t has written its request: len is the written extent
HasWritten(t) == pc[t] \in {"written", "synced", "enqueued", "notified"}

\* C31: for every operation and every argument, the written extent and the
\* split point satisfy 0 < len_in <= total_len <= capacity of the staging
\* buffer, and both ranges of every enqueued chain lie inside the buffer.
C31_ExtentAndRangesInsideBuffer ==
    /\ \A t \in Threads :
          HasWritten(t) =>
              /\ 0 < cur[t].req.len_in
              /\ cur[t].req.len_in <= cur[t].len
              /\ cur[t].len <= BufferBytes
    /\ \A q \in Queues : \A i \in 1..Len(vq[q].avail) :
          LET entry == vq[q].avail[i]
          IN  /\ 0 <= entry.rd.lo /\ entry.rd.hi <= BufferBytes
              /\ 0 <= entry.wr.lo /\ entry.wr.hi <= BufferBytes

\* what does hold: the write never goes past the buffer, and no chain with a
\* range past the buffer is on a queue (the call panics instead)
C31_WrittenExtentAndChainsInsideBuffer ==
    /\ \A t \in Threads :
          HasWritten(t) => (0 < cur[t].req.len_in /\ cur[t].len <= BufferBytes)
    /\ \A q \in Queues : \A i \in 1..Len(vq[q].avail) :
          vq[q].avail[i].rd.hi <= BufferBytes /\ vq[q].avail[i].wr.hi <= BufferBytes

\* write was given a payload of the size of the buffer: the write stopped at
\* the end of the buffer, before the split point
C31_SplitPointPastWrittenExtent ==
    \E t \in Threads :
        /\ HasWritten(t)
        /\ cur[t].req.opcode = "FuseWrite"
        /\ cur[t].len = BufferBytes
        /\ cur[t].req.len_in > cur[t].len

(***************************************************************************)
(* The descriptors of the priority queue.                                  *)
(***************************************************************************)
\* C32: the descriptors of priority-queue requests are reclaimed once the
\* device has completed them: when every earlier request on the priority queue
\* is completed and no call is under way on it, the queue has the two free
\* descriptors the next request needs, and an interrupt, forget or
\* batch_forget call is rejected by the queue only while an earlier request is
\* still with the device.
C32_PriorityDescriptorsReclaimed ==
    /\ (vq[hiprio_queue].avail = <<>> /\ lock[hiprio_queue] = "free") =>
          vq[hiprio_queue].free >= 2
    /\ \A t \in Threads :
          (pc[t] = "add_dma_buf_failed" /\ cur[t].req.q = hiprio_queue) =>
              vq[hiprio_queue].avail # <<>>

\* the device has completed the one earlier priority request, whose
\* descriptors are still taken, and the next priority call was rejected
C32_NextPriorityCallRejected ==
    \E t \in Threads :
        /\ pc[t] = "add_dma_buf_failed"
        /\ cur[t].req.q = hiprio_queue
        /\ vq[hiprio_queue].avail = <<>>
        /\ Len(vq[hiprio_queue].used) = 1
        /\ vq[hiprio_queue].free = 0

(***************************************************************************)
(* handle_recv_irq and test_device with the interrupt taken on the         *)
(* processor of a running thread.  A queue lock is taken with              *)
(* disable_irq(): its holder is not interrupted.  TEST_COUNTER is taken    *)
(* with write() and read(), which spin and leave interrupts enabled.  The  *)
(* handler runs to its end on the processor it interrupted; the thread it  *)
(* interrupted does not run until the handler has returned.                *)
(***************************************************************************)
\* thread-context calls of test_device start while TEST_COUNTER is below this
MaxTestCounter == 3

\* the contexts that call test_device
TestDeviceCtx == Threads \cup {"irq"}

\* the holders of TEST_COUNTER: the context between write() and drop, the
\* contexts between read() and the end of test_device
TestCounterWriters == {c \in TestDeviceCtx : pc[c] = "td_write"}
TestCounterReaders == {c \in TestDeviceCtx : pc[c] = "td_read"}

\* thread t is not the thread the running handler interrupted
Running(t) == ~(cur["irq"].invoked /\ cur["irq"].preempted = t)

\* thread t has interrupts enabled: it holds no queue lock
IrqEnabled(t) == \A q \in Queues : lock[q] # t

\* the state after bring-up, the handler not invoked
PreemptInit ==
    /\ pc = [c \in Ctx |-> "idle"]
    /\ cur = [c \in Ctx |->
                IF c = "irq" THEN [opcode |-> "none", invoked |-> FALSE, preempted |-> "none"]
                ELSE NoReq]
    /\ lock = [q \in Queues |-> "free"]
    /\ buffer = [b \in Buffers |->
                   [opcode |-> "none", hdr_len |-> 0, in_bytes |-> 0, total |-> 0,
                    seq |-> 0, resp |-> NoResp]]
    /\ synced = [b \in Buffers |-> [lo |-> 0, hi |-> 0]]
    /\ vq = [q \in Queues |-> [free |-> QueueSize(q), avail |-> <<>>, used |-> <<>>]]
    /\ irq = NoIrq
    /\ testCounter = 1
    /\ ncalls = 0
    /\ panicked = FALSE

\* the queue interrupt is raised and the callback handle_request entered, on
\* a processor that runs nothing of the driver or on the processor of a thread
\* that has interrupts enabled
IrqRaise ==
    /\ ~panicked
    /\ pc["irq"] = "idle"
    /\ ~cur["irq"].invoked
    /\ \E c \in {"none"} \cup {t \in Threads : IrqEnabled(t)} :
         cur' = [cur EXCEPT !["irq"].invoked = TRUE, !["irq"].preempted = c]
    /\ UNCHANGED <<pc, lock, buffer, synced, vq, irq, testCounter, ncalls, panicked>>

\* lock(), pop_used() is Err: return
IrqSpurious ==
    /\ ~panicked
    /\ pc["irq"] = "idle"
    /\ cur["irq"].invoked
    /\ lock[request_queues(0)] = "free"
    /\ vq[request_queues(0)].used = <<>>
    /\ cur' = [cur EXCEPT !["irq"].invoked = FALSE, !["irq"].preempted = "none"]
    /\ UNCHANGED <<pc, lock, buffer, synced, vq, irq, testCounter, ncalls, panicked>>

\* lock(), pop_used() is Ok, sync, the decode of the branch
IrqHandle ==
    /\ cur["irq"].invoked
    /\ \/ vq[request_queues(0)].used # <<>> /\ IrqPop
       \/ IrqSync
       \/ IrqDecode

\* drop(request_queue)
IrqDropQueue ==
    /\ ~panicked
    /\ pc["irq"] = "decoded"
    /\ lock' = [lock EXCEPT ![request_queues(0)] = "free"]
    /\ irq' = NoIrq
    /\ pc' = [pc EXCEPT !["irq"] = "queue_dropped"]
    /\ UNCHANGED <<cur, buffer, synced, vq, testCounter, ncalls, panicked>>

\* where context c is when it calls test_device
TestDeviceEntry(c) == IF c = "irq" THEN "queue_dropped" ELSE "idle"

\* let mut test_counter = TEST_COUNTER.write()
test_device_write(c) ==
    /\ ~panicked
    /\ pc[c] = TestDeviceEntry(c)
    /\ c \in Threads => testCounter < MaxTestCounter
    /\ TestCounterWriters = {} /\ TestCounterReaders = {}
    /\ pc' = [pc EXCEPT ![c] = "td_write"]
    /\ UNCHANGED <<cur, lock, buffer, synced, vq, irq, testCounter, ncalls, panicked>>

\* *test_counter += 1; drop(test_counter)
test_device_increment(c) ==
    /\ ~panicked
    /\ pc[c] = "td_write"
    /\ testCounter' = testCounter + 1
    /\ pc' = [pc EXCEPT ![c] = "td_dropped"]
    /\ UNCHANGED <<cur, lock, buffer, synced, vq, irq, ncalls, panicked>>

\* let test_counter = TEST_COUNTER.read()
test_device_read(c) ==
    /\ ~panicked
    /\ pc[c] = "td_dropped"
    /\ TestCounterWriters = {}
    /\ pc' = [pc EXCEPT ![c] = "td_read"]
    /\ UNCHANGED <<cur, lock, buffer, synced, vq, irq, testCounter, ncalls, panicked>>

\* match *test_counter { _ => () }, the read guard dropped at the end of the
\* function; in the handler this is the end of handle_recv_irq
test_device_return(c) ==
    /\ ~panicked
    /\ pc[c] = "td_read"
    /\ pc' = [pc EXCEPT ![c] = "idle"]
    /\ cur' = IF c = "irq"
              THEN [cur EXCEPT !["irq"].invoked = FALSE, !["irq"].preempted = "none"]
              ELSE cur
    /\ UNCHANGED <<lock, buffer, synced, vq, irq, testCounter, ncalls, panicked>>

test_device_steps(c) ==
    \/ test_device_write(c) \/ test_device_increment(c)
    \/ test_device_read(c) \/ test_device_return(c)

\* the handler, from the interrupt to its return
PreemptIrq ==
    IrqRaise \/ IrqSpurious \/ IrqHandle \/ IrqDropQueue \/ test_device_steps("irq")

\* a thread, when it is not interrupted: a submission or a call of test_device
PreemptThread(t) ==
    /\ Running(t)
    /\ \/ open(t) \/ read(t) \/ Submit(t)
       \/ test_device_steps(t)

PreemptNext ==
    \/ \E t \in Threads : PreemptThread(t)
    \/ DeviceComplete(request_queues(0))
    \/ PreemptIrq

\* the handler, the device and every thread that can run take their steps
PreemptSpec ==
    /\ PreemptInit /\ [][PreemptNext]_vars
    /\ WF_vars(IrqSpurious \/ IrqHandle \/ IrqDropQueue \/ test_device_steps("irq"))
    /\ WF_vars(DeviceComplete(request_queues(0)))
    /\ \A t \in Threads : WF_vars(Running(t) /\ (Submit(t) \/ test_device_steps(t)))

\* C33: every invocation of handle_recv_irq returns (unless the kernel has
\* panicked), whatever thread the interrupt was taken on, and while the handler
\* is in test_device it does not hold the lock of general queue 0.
C33_HandlerEventuallyReturns ==
    /\ cur["irq"].invoked ~> (~cur["irq"].invoked \/ panicked)
    /\ [](pc["irq"] \in {"queue_dropped", "td_write", "td_dropped", "td_read"}
            => lock[request_queues(0)] # "irq")

\* what does hold: the handler has released the queue lock when it calls
\* test_device, and the thread it interrupted holds no queue lock
C33_NoWaitOnQueueLockOfInterrupted ==
    /\ pc["irq"] \in {"queue_dropped", "td_write", "td_dropped", "td_read"}
          => lock[request_queues(0)] # "irq"
    /\ \A t \in Threads :
          (cur["irq"].invoked /\ cur["irq"].preempted = t) => IrqEnabled(t)

\* the handler is at TEST_COUNTER.write() and the thread it interrupted holds
\* TEST_COUNTER: neither can take a step
C33_HandlerSpinsOnTestCounter ==
    \E t \in Threads :
        /\ cur["irq"].invoked /\ cur["irq"].preempted = t
        /\ pc["irq"] = "queue_dropped"
        /\ pc[t] \in {"td_write", "td_read"}
        /\ ~ENABLED test_device_write("irq")

(***************************************************************************)
(* read_dirent with the 32-bit fields of the response.  A u32 is held as   *)
(* the i32 of the same bits, which is what `as i32` gives; an i32          *)
(* operation that overflows panics in a build with overflow checks and     *)
(* wraps in a build without.                                               *)
(***************************************************************************)
\* records in the reader before it is exhausted
MaxDirents32 == 2

MaxI32 == 2147483647
MinI32 == (-MaxI32) - 1

\* whether a + b and a - b leave the range of i32
AddOverflows(a, b) == IF b >= 0 THEN a > MaxI32 - b ELSE a < MinI32 - b
SubOverflows(a, b) == IF b >= 0 THEN a < MinI32 + b ELSE a > MaxI32 + b

\* a.wrapping_add(b), a.wrapping_sub(b)
WrapAdd(a, b) ==
    IF ~AddOverflows(a, b) THEN a + b
    ELSE IF b >= 0 THEN (a + MinI32) + (b + MinI32)
    ELSE (a - MinI32) + (b - MinI32)
WrapSub(a, b) ==
    IF ~SubOverflows(a, b) THEN a - b
    ELSE IF b >= 0 THEN (a - MinI32) - (b + MinI32)
    ELSE (a + MinI32) - (b - MinI32)

\* u32 values by their bits as i32: out_header.len of 0, 16, 17, 40, 64,
\* 0x7fffffff, 0x80000000, 0x8000000f, 0xffffffff
OutHeaderLens32 == {0, 16, 17, 40, 64, MaxI32, MinI32, MinI32 + 15, -1}

\* dirent.namelen of 0, 1, 8, 0x7fffffff, 0x80000000, 0xffffffe0, 0xffffffe8,
\* 0xffffffff
NameLens32 == {0, 1, 8, MaxI32, MinI32, -32, -24, -1}

\* the records from the position of the reader to the end of the buffer, by
\* their namelen
DirentStreams32 == SeqsUpTo(NameLens32, MaxDirents32)

\* whether the u32 x is larger than the staging buffer
LargerThanBuffer(x) == x < 0 \/ x > BufferBytes

\* (8 - (dirent.namelen & 0x7)) & 0x7
dirent_pad_len32(namelen) == (8 - (namelen % 8)) % 8

\* the handler is at the call of read_dirent(&mut reader, headerout)
Readdir32Init ==
    /\ pc = [c \in Ctx |-> IF c = "irq" THEN "read_dirent_called" ELSE "idle"]
    /\ cur = [t \in Threads |-> NoReq]
    /\ lock = [q \in Queues |-> IF q = request_queues(0) THEN "irq" ELSE "free"]
    /\ buffer = [b \in Buffers |->
                   [opcode |-> IF b = request_buffers(0) THEN "FuseReaddir" ELSE "none",
                    hdr_len |-> 0, in_bytes |-> 0, total |-> 0,
                    seq |-> 0, resp |-> NoResp]]
    /\ synced = [b \in Buffers |-> [lo |-> 0, hi |-> 0]]
    /\ vq = [q \in Queues |-> [free |-> QueueSize(q), avail |-> <<>>, used |-> <<>>]]
    /\ \E out_header_len \in OutHeaderLens32, stream \in DirentStreams32,
          overflow_checks \in BOOLEAN :
         irq = [opcode |-> "FuseReaddir",
                out_header_len |-> out_header_len,
                reader |-> stream,
                len |-> 0,
                dirents |-> <<>>,
                overflow_checks |-> overflow_checks]
    /\ testCounter = 1
    /\ ncalls = 0
    /\ panicked = FALSE

\* let mut len = out_header.len as i32 - size_of::<FuseOutHeader>() as i32
read_dirent32_enter ==
    /\ ~panicked
    /\ pc["irq"] = "read_dirent_called"
    /\ IF SubOverflows(irq.out_header_len, SizeFuseOutHeader) /\ irq.overflow_checks
       THEN panicked' = TRUE /\ UNCHANGED <<pc, irq>>
       ELSE /\ irq' = [irq EXCEPT !.len = WrapSub(irq.out_header_len, SizeFuseOutHeader)]
            /\ pc' = [pc EXCEPT !["irq"] = "read_dirent32"]
            /\ UNCHANGED panicked
    /\ UNCHANGED <<cur, lock, buffer, synced, vq, testCounter, ncalls>>

\* one turn of while len > 0 { .. }: read_val::<FuseDirent>().unwrap() panics
\* when the reader is exhausted; vec![0; dirent.namelen as usize] of more than
\* the buffer holds either is allocated or panics; the sum and the
\* subtraction are i32 operations
read_dirent32_loop ==
    /\ ~panicked
    /\ pc["irq"] = "read_dirent32"
    /\ irq.len > 0
    /\ IF irq.reader = <<>>
       THEN panicked' = TRUE /\ UNCHANGED irq
       ELSE LET namelen == Head(irq.reader)
                pad_len == dirent_pad_len32(namelen)
                sum1 == WrapAdd(SizeFuseDirent, namelen)
                sum2 == WrapAdd(sum1, pad_len)
                overflows == \/ AddOverflows(SizeFuseDirent, namelen)
                             \/ AddOverflows(sum1, pad_len)
                             \/ SubOverflows(irq.len, sum2)
            IN  \E allocated \in IF LargerThanBuffer(namelen) THEN BOOLEAN ELSE {TRUE} :
                  IF ~allocated \/ (overflows /\ irq.overflow_checks)
                  THEN panicked' = TRUE /\ UNCHANGED irq
                  ELSE /\ irq' = [irq EXCEPT
                                    !.reader = Tail(@),
                                    !.dirents = Append(@, namelen),
                                    !.len = WrapSub(@, sum2)]
                       /\ UNCHANGED panicked
    /\ UNCHANGED <<pc, cur, lock, buffer, synced, vq, testCounter, ncalls>>

\* FuseReaddirOut { dirents: dirents }
read_dirent32_return ==
    /\ ~panicked
    /\ pc["irq"] = "read_dirent32"
    /\ irq.len <= 0
    /\ pc' = [pc EXCEPT !["irq"] = "read_dirent_returned"]
    /\ UNCHANGED <<cur, lock, buffer, synced, vq, irq, testCounter, ncalls, panicked>>

read_dirent32 == read_dirent32_enter \/ read_dirent32_loop \/ read_dirent32_return

Readdir32Spec == Readdir32Init /\ [][read_dirent32]_vars

\* (out_header.len - size_of FuseOutHeader) / size_of FuseDirent + 1 for the
\* u32 out_header.len; from 0x80000000 on it is above every count of the model
IterationBound(out_header_len) ==
    IF out_header_len < 0 THEN MaxI32
    ELSE IF out_header_len <= SizeFuseOutHeader THEN 0
    ELSE (out_header_len - SizeFuseOutHeader) \div SizeFuseDirent + 1

\* C34: in read_dirent every turn of the loop leaves len strictly smaller than
\* it was, for every 32-bit out_header.len and namelen; the entries decoded
\* never number more than (out_header.len - size_of FuseOutHeader) /
\* size_of FuseDirent + 1; an out_header.len of at most size_of FuseOutHeader
\* gives no entry.
C34_LenStrictlyDecreases ==
    /\ [][(pc["irq"] = "read_dirent32" /\ irq'.dirents # irq.dirents) =>
             irq'.len < irq.len]_vars
    /\ [](pc["irq"] \in {"read_dirent32", "read_dirent_returned"} =>
             Len(irq.dirents) <= IterationBound(irq.out_header_len))

\* what does hold: with names no longer than the buffer every turn lowers len
\* by at least size_of FuseDirent, and an out_header.len of 0..16 gives no entry
C34_DecreasesForNamesInsideBuffer ==
    /\ [][(pc["irq"] = "read_dirent32" /\ irq'.dirents # irq.dirents
             /\ ~LargerThanBuffer(Head(irq.reader))) =>
             irq'.len <= irq.len - SizeFuseDirent]_vars
    /\ [](irq.out_header_len \in 0..SizeFuseOutHeader => irq.dirents = <<>>)

\* a record with namelen 0xffffffe0 was decoded and len has grown
C34_LenGrew ==
    /\ pc["irq"] = "read_dirent32"
    /\ irq.out_header_len = SizeFuseOutHeader + 1
    /\ irq.dirents = <<-32>>
    /\ irq.len = 9

(***************************************************************************)
(* VirtioFsReq::into_bytes on the bytes of a request.                      *)
(***************************************************************************)
\* longest datain and dataout, in bytes
MaxReqData == 2

\* the byte values of datain and dataout
ReqBytes == {0, 171}

DataSeqs == SeqsUpTo(ReqBytes, MaxReqData)

\* FuseOutHeader { len, error, unique } as_bytes()
FuseOutHeader_as_bytes(h) ==
    le_bytes(h.len, 4) \o le_bytes(h.error, 4) \o le_bytes(h.unique, 8)

\* the VirtioFsReq values into_bytes is applied to
VirtioFsReqs ==
    [headerin : {[batch_forget_headerin EXCEPT !.len = SizeFuseInHeader + n, !.unique = u] :
                    n \in 0..MaxReqData, u \in Uniques},
     datain : DataSeqs,
     headerout : [len : {0, SizeFuseOutHeader}, error : {0, -2}, unique : Uniques],
     dataout : DataSeqs]

\* VirtioFsReq::into_bytes: concat_req is total_len zero bytes with
\* fuse_in_header and datain copied to its start
into_bytes(self) ==
    LET fuse_in_header == FuseInHeader_as_bytes(self.headerin)
        datain == self.datain
        fuse_out_header == FuseOutHeader_as_bytes(self.headerout)
        dataout == self.dataout
        total_len == Len(fuse_in_header) + Len(datain) + Len(fuse_out_header) + Len(dataout)
    IN  [i \in 1..total_len |->
            IF i <= Len(fuse_in_header) THEN fuse_in_header[i]
            ELSE IF i <= Len(fuse_in_header) + Len(datain)
                 THEN datain[i - Len(fuse_in_header)]
                 ELSE 0]

\* each thread holds a VirtioFsReq of its own
IntoBytesInit ==
    /\ pc = [c \in Ctx |-> "idle"]
    /\ \E self \in VirtioFsReqs :
         cur = [t \in Threads |-> [opcode |-> "none", self |-> self]]
    /\ lock = [q \in Queues |-> "free"]
    /\ buffer = [b \in Buffers |->
                   [opcode |-> "none", hdr_len |-> 0, in_bytes |-> 0, total |-> 0,
                    seq |-> 0, resp |-> NoResp]]
    /\ synced = [b \in Buffers |-> [lo |-> 0, hi |-> 0]]
    /\ vq = [q \in Queues |-> [free |-> QueueSize(q), avail |-> <<>>, used |-> <<>>]]
    /\ irq = NoIrq
    /\ testCounter = 1
    /\ ncalls = 0
    /\ panicked = FALSE

\* let concat_req = self.into_bytes()
into_bytes_call(t) ==
    /\ pc[t] = "idle"
    /\ cur' = [cur EXCEPT ![t] = [opcode |-> "none", self |-> cur[t].self,
                                   concat_req |-> into_bytes(cur[t].self)]]
    /\ pc' = [pc EXCEPT ![t] = "encoded"]
    /\ UNCHANGED <<lock, buffer, synced, vq, irq, testCounter, ncalls, panicked>>

IntoBytesSpec == IntoBytesInit /\ [][\E t \in Threads : into_bytes_call(t)]_vars

\* the length of into_bytes is the sum of the four parts and its prefix is
\* the headerin bytes followed by datain
IntoBytesLengthAndPrefix(t) ==
    LET self == cur[t].self
        req == cur[t].concat_req
        n_in == SizeFuseInHeader + Len(self.datain)
    IN  /\ Len(req) = n_in + SizeFuseOutHeader + Len(self.dataout)
        /\ Len(FuseInHeader_as_bytes(self.headerin)) = SizeFuseInHeader
        /\ Len(FuseOutHeader_as_bytes(self.headerout)) = SizeFuseOutHeader
        /\ SubSeq(req, 1, n_in) = FuseInHeader_as_bytes(self.headerin) \o self.datain

\* C35: for every VirtioFsReq, into_bytes has the length size(headerin) +
\* len(datain) + size(headerout) + len(dataout), starts with the headerin bytes
\* followed by datain, and ends with the headerout bytes followed by dataout.
C35_IntoBytesKeepsAllParts ==
    \A t \in Threads :
        pc[t] = "encoded" =>
            LET self == cur[t].self
                req == cur[t].concat_req
                n_in == SizeFuseInHeader + Len(self.datain)
            IN  /\ IntoBytesLengthAndPrefix(t)
                /\ SubSeq(req, n_in + 1, Len(req))
                     = FuseOutHeader_as_bytes(self.headerout) \o self.dataout

\* what does hold: length and prefix are as stated, and every byte after
\* datain is zero
C35_IntoBytesZeroesOutParts ==
    \A t \in Threads :
        pc[t] = "encoded" =>
            LET self == cur[t].self
                req == cur[t].concat_req
                n_in == SizeFuseInHeader + Len(self.datain)
            IN  /\ IntoBytesLengthAndPrefix(t)
                /\ \A i \in (n_in + 1)..Len(req) : req[i] = 0

\* a request with a headerout and a dataout that are not zero was encoded
C35_OutPartsLost ==
    /\ pc["t1"] = "encoded"
    /\ cur["t1"].self.headerout = [len |-> SizeFuseOutHeader, error |-> -2, unique |-> 1]
    /\ cur["t1"].self.dataout = <<171, 171>>
    /\ cur["t1"].self.datain = <<171>>
    /\ SubSeq(cur["t1"].concat_req, SizeFuseInHeader + 2, SizeFuseInHeader + 19)
         = [i \in 1..(SizeFuseOutHeader + 2) |-> 0]

====
